---- MODULE Spec2Model ----
(***************************************************************************)
(* The agent-turn orchestration core of detective_agent (module6):         *)
(* DetectiveAgent.send_message, the Tracer/Span/Trace engine it drives,    *)
(* the ToolRegistry it dispatches to, the ConversationStore and the        *)
(* FileTraceExporter it hands results to.                                  *)
(*                                                                         *)
(* send_message is a coroutine: it runs without interruption between two   *)
(* awaits.  The awaits are provider.complete (agent.py:89) and the tool    *)
(* handler (registry.py:96).  `running` is the task the event loop is      *)
(* executing; a task gives it up at an await and is resumed later.         *)
(***************************************************************************)
EXTENDS Integers, Sequences, FiniteSets, TLC

(* ------------------------------ bounds -------------------------------- *)

\* longest tool-call batch a provider stub requests in one reply
MaxBatch == 2
\* a turn starts only while the agents' conversations hold at most this
\* many messages in total (bounds the number of turns)
MaxHistory == 2
\* SpecConc only: the provider replies that request tool calls, over the
\* turns under way
MaxConcToolReplies == 1

(* ------------------------- program constants -------------------------- *)

\* mutant of max_iterations: the loop allows one iteration more
max_iterations_off_by_one == 10 + 1

\* agent.py:71  max_iterations = 10
max_iterations == 10

\* the tasks that call send_message, each on its own DetectiveAgent
Tasks == {"A", "B"}

\* None: no trace / no span (ids count from 1)
None == 0

\* the event loop is executing no task
Nobody == "nobody"

\* dict() / {}
EmptyDict == [k \in {} |-> 0]

\* d[k] = v on a dict
DictSet(d, k, v) == (k :> v) @@ d

\* d.get(k, default)
DictGet(d, k, default) == IF k \in DOMAIN d THEN d[k] ELSE default

NoExc == [type |-> "", message |-> ""]
Exc(type, message) == [type |-> type, message |-> message]

\* the errors a provider stub raises (providers/errors.py)
ProviderErrorTypes == {"RateLimitError", "AuthenticationError"}
ProviderFailure(type) == Exc(type, "provider failed")

(* ------------------------------ tools --------------------------------- *)

\* The registry the agents are given at startup: tool name -> handler.
\* "echo" returns a dict, "boom" raises; "ghost" is never registered.
RegisteredTools == [echo |-> "returns", boom |-> "raises"]

\* ToolRegistry.get: the name is looked up in self.tools
IsRegistered(name) == name \in DOMAIN RegisteredTools

\* the tool calls a provider stub lists, {id, function: {name, arguments}}:
\* a call that succeeds, one with a malformed argument payload, one naming an
\* unregistered tool, one whose handler raises
CallShapes ==
    << [name |-> "echo",  arguments |-> "valid"],
       [name |-> "echo",  arguments |-> "malformed"],
       [name |-> "ghost", arguments |-> "valid"],
       [name |-> "boom",  arguments |-> "valid"] >>

CallId(i) == "call_" \o ToString(i)

ToolCall(i, shape) ==
    [id |-> CallId(i), name |-> shape.name, arguments |-> shape.arguments]

\* the batches of 1..MaxBatch calls a stub requests: the i-th call has id
\* call_i, and the shapes run through CallShapes from any starting point
Batches ==
    { [i \in 1..k |-> ToolCall(i, CallShapes[((first + i - 2) % Len(CallShapes)) + 1])]
      : k \in 1..MaxBatch, first \in 1..Len(CallShapes) }

(* ----------------------------- messages ------------------------------- *)

\* mutant of ErrorObject: the except clause passes str(e) on as it is
ErrorAsText(message) == <<"text", message>>

\* Message content: text, or the JSON text of an object
Text(s) == <<"text", s>>
ResultObject(name) == <<"json", name>>
ErrorObject(message) == <<"json-error", message>>

\* what the user sends in the n-th turn
UserText(n) == Text(<<"go", n>>)

\* models.py Message(role, content, metadata)
Message(role, content, metadata) ==
    [role |-> role, content |-> content, metadata |-> metadata]

Exhausted == "Error: Maximum tool calling iterations reached."

(* ------------------------------ tracing ------------------------------- *)

\* observability/models.py Trace(service_name, attributes); spans = []
Trace(attributes) ==
    [spans |-> <<>>, service_name |-> "detective-agent", attributes |-> attributes]

\* observability/models.py Span(...): status unset, end_time None
Span(trace_id, parent_span_id, name, kind, attributes) ==
    [trace_id |-> trace_id, parent_span_id |-> parent_span_id, name |-> name,
     kind |-> kind, status |-> "unset", ended |-> FALSE,
     attributes |-> attributes, events |-> <<>>]

\* Span.end(status): end_time = now, status = status
SpanEnd(s, status) == [s EXCEPT !.ended = TRUE, !.status = status]

\* Span.set_attribute(key, value)
SetAttribute(s, key, value) == [s EXCEPT !.attributes = DictSet(@, key, value)]

\* Tracer.span, leaving the scope without an exception (tracer.py:104)
SpanExitOk(s) == SpanEnd(s, "ok")

\* mutant of SpanExitError: the except clause records the error but ends the
\* span as if nothing had happened
SpanExitErrorEndsOk(s, e) ==
    SpanEnd(SetAttribute(SetAttribute(s, "error.type", e.type),
                         "error.message", e.message), "ok")

\* Tracer.span, an Exception propagating out of the scope (tracer.py:105-108)
SpanExitError(s, e) ==
    SpanEnd(SetAttribute(SetAttribute(s, "error.type", e.type),
                         "error.message", e.message), "error")

\* mutant of CtxOf: the current span kept in one process-wide variable
CtxShared(t) == "A"

\* the context a task runs in: asyncio gives every task its own copy, and
\* _current_span is a ContextVar (tracer.py:10)
CtxOf(t) == t

VARIABLES
    current_trace,   \* Tracer._current_trace of the global tracer (get_tracer)
    current_span,    \* _current_span, per context
    traces,          \* every Trace created, trace_id = index
    spans,           \* every Span created, span_id = index
    scope,           \* per span: the task that opened its tracer.span scope, and
                     \* whether the scope is "open" or was left "normal" or "raised"
    conversation,    \* per agent: Conversation (messages, trace_id)
    store,           \* per agent: what ConversationStore holds for its conversation
    exported,        \* the calls FileTraceExporter.export received
    pc,              \* per task: where its send_message stands
    running,         \* the task the event loop is executing, or Nobody
    frame,           \* per task: the locals of its send_message
    turn,            \* per task: the bookkeeping of its current/last turn
    driver,          \* a program that calls the tracer itself: its open
                     \* tracer.span scopes and what its last call did
    registry,        \* a ToolRegistry of its own and the calls made on it
    provider,        \* an OpenRouterProvider and the complete() calls made
    files,           \* a FileTraceExporter: the documents written and loaded
    callbacks,       \* a TracingCallbackHandler: its spans map, the spans its
                     \* tracer started, the callbacks it received
    investigator     \* an InvestigatorAgent: its chat memory and its calls

vars == <<current_trace, current_span, traces, spans, scope, conversation,
          store, exported, pc, running, frame, turn, driver, registry, provider,
          files, callbacks, investigator>>

\* what the agents of send_message never touch
others == <<driver, registry, provider, files, callbacks, investigator>>

\* the LangChain agent and its callback handler
langchain == <<callbacks, investigator>>

\* what only send_message touches
agents == <<conversation, store, exported, pc, running, frame, turn>>

NoFrame ==
    [trace |-> None, root_span |-> None, llm_span |-> None, tool_span |-> None,
     iteration |-> 0, response |-> Message("assistant", Text(""), EmptyDict),
     tool_calls |-> <<>>, pending |-> <<>>, result_str |-> Text(""),
     tokens |-> <<>>, exc |-> NoExc, returning |-> FALSE, result |-> "",
     messages |-> <<>>]

NoTurn ==
    [n |-> 0, provider_calls |-> 0, tool_replies |-> 0, saves |-> 0,
     exports |-> 0, export_failed |-> FALSE, computed |-> "", outcome |-> "none",
     value |-> "", error |-> NoExc]

\* what the tracer looked like when a call was made on it
Seen ==
    [trace |-> current_trace, span |-> current_span[CtxOf("A")], traces |-> traces,
     nspans |-> Len(spans), depth |-> Len(driver.scopes),
     detached |-> driver.detached]

\* a tracer.span scope of the driver: its span, the token of
\* _current_span.set (tracer.py:100) and the current span seen on entry
NoScope == [span |-> None, token |-> None, before |-> None]

\* no call made yet
NoCall ==
    [op |-> "none", raised |-> NoExc, returned |-> None, scope |-> NoScope,
     was |-> [trace |-> None, span |-> None, traces |-> <<>>, nspans |-> 0,
              depth |-> 0, detached |-> FALSE]]

\* detached: end_trace was called and start_trace was not called since
NoDriver == [scopes |-> <<>>, detached |-> FALSE, last |-> NoCall]

\* a call on the registry: what it raised or returned, and which tools had
\* their handler invoked by it
RegistryCall(op, name, raised, returned, invoked) ==
    [op |-> op, name |-> name, raised |-> raised, returned |-> returned,
     invoked |-> invoked]

\* registered: every tool handed to register, in call order
NoRegistry ==
    [tools |-> EmptyDict, registered |-> <<>>,
     last |-> RegistryCall("none", "", NoExc, None, <<>>)]

\* client: _client is set (__aenter__ ran); calls: the complete() calls made,
\* each with what the HTTP layer did and what the caller got
NoProvider == [client |-> FALSE, calls |-> <<>>]

\* written: location -> the JSON document in the file; exported: location ->
\* the trace as it was when it was exported there; loaded: what the last
\* load_trace returned, and from where
NoFiles ==
    [written |-> EmptyDict, exported |-> EmptyDict,
     loaded |-> [location |-> <<>>, document |-> EmptyDict]]

\* callbacks.py:18-20: a new callbacks, no span started
NoHandler ==
    [spans |-> EmptyDict, started |-> <<>>, log |-> <<>>,
     last |-> [raised |-> NoExc, spans |-> EmptyDict, started |-> <<>>]]

\* agent.py:44-47: a new agent, its ConversationBufferMemory empty
NoInvestigator ==
    [memory |-> <<>>, pending |-> EmptyDict, sends |-> 0,
     last |-> [op |-> "none", user_message |-> "", before |-> <<>>,
               outcome |-> "none", value |-> <<>>, error |-> NoExc]]

Init ==
    /\ current_trace = None
    /\ current_span = [c \in Tasks |-> None]
    /\ traces = <<>>
    /\ spans = <<>>
    /\ scope = <<>>
    /\ conversation = [t \in Tasks |-> [messages |-> <<>>, trace_id |-> None]]
    /\ store = [t \in Tasks |-> [saved |-> FALSE, messages |-> <<>>]]
    /\ exported = <<>>
    /\ pc = [t \in Tasks |-> "idle"]
    /\ running = Nobody
    /\ frame = [t \in Tasks |-> NoFrame]
    /\ turn = [t \in Tasks |-> NoTurn]
    /\ driver = NoDriver
    /\ registry = NoRegistry
    /\ provider = NoProvider
    /\ files = NoFiles
    /\ callbacks = NoHandler
    /\ investigator = NoInvestigator

(* --------------------------- helper reads ----------------------------- *)

Messages(t) == conversation[t].messages

TotalHistory == LET RECURSIVE Sum(_)
                    Sum(S) == IF S = {} THEN 0
                              ELSE LET x == CHOOSE y \in S : TRUE
                                   IN Len(Messages(x)) + Sum(S \ {x})
                IN Sum(Tasks)

\* mutant of AddMessage: the message is put in front of the history
AddMessageInFront(conv, m) == [conv EXCEPT !.messages = <<m>> \o @]

\* Conversation.add_message / conversation.messages.append
AddMessage(conv, m) == [conv EXCEPT !.messages = Append(@, m)]

\* mutant of Save: nothing is written
SaveNothing(t, conv) == store

\* ConversationStore.save: overwrite the file of this conversation
Save(t, conv) == [store EXCEPT ![t] = [saved |-> TRUE, messages |-> conv.messages]]

\* Tracer.span, entry (tracer.py:84-100): the new span, child of the ambient
\* current span of the calling context, in the tracer's current trace
NewSpan(t, name, kind, attributes) ==
    Span(current_trace, current_span[CtxOf(t)], name, kind, attributes)

\* mutant of AddSpan: the span is put in front of the list
AddSpanInFront(id) == [traces EXCEPT ![current_trace].spans = <<id>> \o @]

\* Trace.add_span on the tracer's current trace
AddSpan(id) == [traces EXCEPT ![current_trace].spans = Append(@, id)]

\* token = _current_span.set(span): the token remembers the old value
Push(t, id) == [frame[t] EXCEPT !.tokens = Append(@, current_span[CtxOf(t)])]

\* mutant of ResetTo: leaving a scope clears the current span
ResetToNothing(t) == None

\* _current_span.reset(token)
ResetTo(t) == frame[t].tokens[Len(frame[t].tokens)]
Pop(fr) == [fr EXCEPT !.tokens = SubSeq(@, 1, Len(@) - 1)]

(* ------------------------------ actions ------------------------------- *)

\* agent.py:56-68: start_trace, open the root span, add the user message
StartTurn(t) ==
    /\ pc[t] = "idle"
    /\ UNCHANGED others
    /\ running = Nobody
    /\ TotalHistory <= MaxHistory
    /\ LET tid == Len(traces) + 1
           sid == Len(spans) + 1
           root == SetAttribute(
                     Span(tid, current_span[CtxOf(t)], "send_message", "internal",
                          DictSet(EmptyDict, "message_length", "len(content)")),
                     "tools_count", Cardinality(DOMAIN RegisteredTools))
       IN /\ traces' = Append(traces,
                          [Trace(DictSet(EmptyDict, "user_message", "go"))
                             EXCEPT !.spans = <<sid>>])
          /\ current_trace' = tid
          /\ spans' = Append(spans, root)
          /\ scope' = Append(scope, [by |-> t, exit |-> "open"])
          /\ current_span' = [current_span EXCEPT ![CtxOf(t)] = sid]
          /\ conversation' = [conversation EXCEPT ![t] =
                 AddMessage([@ EXCEPT !.trace_id = tid],
                            Message("user", UserText(turn[t].n + 1), EmptyDict))]
          /\ frame' = [frame EXCEPT ![t] =
                 [NoFrame EXCEPT !.trace = tid, !.root_span = sid,
                                 !.tokens = <<current_span[CtxOf(t)]>>]]
    /\ turn' = [turn EXCEPT ![t] = [NoTurn EXCEPT !.n = turn[t].n + 1]]
    /\ pc' = [pc EXCEPT ![t] = "loop"]
    /\ running' = t
    /\ UNCHANGED <<store, exported>>

\* Message(role="system", content=self.conversation.system_prompt)
SystemMessage == Message("system", Text("system prompt"), EmptyDict)

\* mutant of ProviderMessages: only the newest message is sent along
ProviderMessagesNewestOnly(t) ==
    <<SystemMessage>> \o SubSeq(Messages(t), Len(Messages(t)), Len(Messages(t)))

\* agent.py:75-77: messages = [system message] + conversation.messages
ProviderMessages(t) == <<SystemMessage>> \o Messages(t)

\* agent.py:73-89: the loop head; the next provider call in its llm_call span
CallProvider(t) ==
    /\ pc[t] = "loop"
    /\ UNCHANGED others
    /\ running = t
    /\ frame[t].iteration < max_iterations
    /\ IF current_trace = None
       THEN \* tracer.py:80-81: span() with no current trace
            /\ frame' = [frame EXCEPT
                   ![t].messages = ProviderMessages(t),
                   ![t].exc =
                   Exc("RuntimeError", "No active trace. Call start_trace() first.")]
            /\ pc' = [pc EXCEPT ![t] = "root_except"]
            /\ UNCHANGED <<spans, scope, traces, current_span, turn, running>>
       ELSE LET sid == Len(spans) + 1
                llm == NewSpan(t, "llm_call", "client",
                         [model |-> "model",
                          message_count |-> Len(ProviderMessages(t)),
                          iteration |-> frame[t].iteration])
            IN /\ spans' = Append(spans, llm)
               /\ scope' = Append(scope, [by |-> t, exit |-> "open"])
               /\ traces' = AddSpan(sid)
               /\ current_span' = [current_span EXCEPT ![CtxOf(t)] = sid]
               /\ frame' = [frame EXCEPT ![t] =
                      [Push(t, sid) EXCEPT !.llm_span = sid,
                                           !.messages = ProviderMessages(t)]]
               /\ turn' = [turn EXCEPT ![t].provider_calls = @ + 1]
               /\ pc' = [pc EXCEPT ![t] = "await_provider"]
               /\ running' = Nobody
    /\ UNCHANGED <<current_trace, conversation, store, exported>>

\* agent.py:144-147: the loop ran max_iterations times
Exhaust(t) ==
    /\ pc[t] = "loop"
    /\ UNCHANGED others
    /\ running = t
    /\ frame[t].iteration >= max_iterations
    /\ spans' = [spans EXCEPT ![frame[t].root_span] =
                    SetAttribute(@, "max_iterations_reached", TRUE)]
    /\ store' = Save(t, conversation[t])
    /\ turn' = [turn EXCEPT ![t].saves = @ + 1]
    /\ frame' = [frame EXCEPT ![t].returning = TRUE, ![t].result = Exhausted]
    /\ pc' = [pc EXCEPT ![t] = "root_exit"]
    /\ UNCHANGED <<current_trace, current_span, traces, scope, conversation,
                   exported, running>>

\* agent.py:97-100: the token usage of the reply (a stub reports none)
Usage(s) ==
    SetAttribute(SetAttribute(SetAttribute(s, "tokens.prompt", 0),
                              "tokens.completion", 0), "tokens.total", 0)

\* the llm_call scope is left (tracer.py:102-112) and control is back in the
\* root scope
LeaveLlmSpan(t, left) ==
    /\ spans' = [spans EXCEPT ![frame[t].llm_span] = left]
    /\ current_span' = [current_span EXCEPT ![CtxOf(t)] = ResetTo(t)]

\* agent.py:89-100: provider.complete returns a reply without tool calls
ProviderReturnsText(t) ==
    /\ pc[t] = "await_provider"
    /\ UNCHANGED others
    /\ running = Nobody
    /\ LeaveLlmSpan(t, SpanExitOk(Usage(spans[frame[t].llm_span])))
    /\ scope' = [scope EXCEPT ![frame[t].llm_span].exit = "normal"]
    /\ frame' = [frame EXCEPT ![t] =
           [Pop(@) EXCEPT !.response = Message("assistant", Text("done"), EmptyDict)]]
    /\ pc' = [pc EXCEPT ![t] = "reply"]
    /\ running' = t
    /\ UNCHANGED <<current_trace, traces, conversation, store, exported, turn>>

\* agent.py:89-100: provider.complete returns a reply that lists tool calls
\* (a stub repeats the batch it asked for earlier in the turn)
ProviderReturnsToolCalls(t, batch) ==
    /\ pc[t] = "await_provider"
    /\ UNCHANGED others
    /\ running = Nobody
    /\ frame[t].tool_calls \in {<<>>, batch}
    /\ LeaveLlmSpan(t, SpanExitOk(Usage(spans[frame[t].llm_span])))
    /\ scope' = [scope EXCEPT ![frame[t].llm_span].exit = "normal"]
    /\ frame' = [frame EXCEPT ![t] =
           [Pop(@) EXCEPT !.response =
               Message("assistant", Text(""), DictSet(EmptyDict, "tool_calls", batch))]]
    /\ turn' = [turn EXCEPT ![t].tool_replies = @ + 1]
    /\ pc' = [pc EXCEPT ![t] = "reply"]
    /\ running' = t
    /\ UNCHANGED <<current_trace, traces, conversation, store, exported>>

\* agent.py:89: provider.complete raises; the exception leaves the llm_call
\* scope (tracer.py:105-112)
ProviderRaises(t, type) ==
    /\ pc[t] = "await_provider"
    /\ UNCHANGED others
    /\ running = Nobody
    /\ LeaveLlmSpan(t, SpanExitError(spans[frame[t].llm_span], ProviderFailure(type)))
    /\ scope' = [scope EXCEPT ![frame[t].llm_span].exit = "raised"]
    /\ frame' = [frame EXCEPT ![t] = [Pop(@) EXCEPT !.exc = ProviderFailure(type)]]
    /\ pc' = [pc EXCEPT ![t] = "root_except"]
    /\ running' = t
    /\ UNCHANGED <<current_trace, traces, conversation, store, exported, turn>>

\* agent.py:103-110: the reply has no tool calls: the final response
FinalReply(t) ==
    /\ pc[t] = "reply"
    /\ UNCHANGED others
    /\ running = t
    /\ DictGet(frame[t].response.metadata, "tool_calls", <<>>) = <<>>
    /\ conversation' = [conversation EXCEPT ![t] = AddMessage(@, frame[t].response)]
    /\ spans' = [spans EXCEPT ![frame[t].root_span] =
           SetAttribute(SetAttribute(@, "total_messages", Len(Messages(t)) + 1),
                        "iterations", frame[t].iteration + 1)]
    /\ store' = Save(t, conversation'[t])
    /\ turn' = [turn EXCEPT ![t].saves = @ + 1]
    /\ frame' = [frame EXCEPT ![t].returning = TRUE,
                              ![t].result = frame[t].response.content[2]]
    /\ pc' = [pc EXCEPT ![t] = "root_exit"]
    /\ UNCHANGED <<current_trace, current_span, traces, scope, exported, running>>

\* agent.py:103-116: the reply lists tool calls: append it, start on the batch
ToolCallsReply(t) ==
    /\ pc[t] = "reply"
    /\ UNCHANGED others
    /\ running = t
    /\ DictGet(frame[t].response.metadata, "tool_calls", <<>>) # <<>>
    /\ conversation' = [conversation EXCEPT ![t] = AddMessage(@, frame[t].response)]
    /\ frame' = [frame EXCEPT ![t].tool_calls = frame[t].response.metadata["tool_calls"],
                              ![t].pending = frame[t].response.metadata["tool_calls"]]
    /\ pc' = [pc EXCEPT ![t] = "tools"]
    /\ UNCHANGED <<current_trace, current_span, traces, spans, scope, store,
                   exported, running, turn>>

\* agent.py:116 (loop exit): every call of the batch is done, next iteration
BatchDone(t) ==
    /\ pc[t] = "tools"
    /\ UNCHANGED others
    /\ running = t
    /\ frame[t].pending = <<>>
    /\ frame' = [frame EXCEPT ![t].iteration = @ + 1]
    /\ pc' = [pc EXCEPT ![t] = "loop"]
    /\ UNCHANGED <<current_trace, current_span, traces, spans, scope, conversation,
                   store, exported, running, turn>>

\* agent.py:116-124: the next call of the batch, its tool:<name> span opened
OpenToolSpan(t) ==
    /\ pc[t] = "tools"
    /\ UNCHANGED others
    /\ running = t
    /\ frame[t].pending # <<>>
    /\ IF current_trace = None
       THEN \* tracer.py:80-81
            /\ frame' = [frame EXCEPT ![t].exc =
                   Exc("RuntimeError", "No active trace. Call start_trace() first.")]
            /\ pc' = [pc EXCEPT ![t] = "root_except"]
            /\ UNCHANGED <<spans, scope, traces, current_span>>
       ELSE LET call == Head(frame[t].pending)
                sid == Len(spans) + 1
            IN /\ spans' = Append(spans,
                      NewSpan(t, <<"tool:", call.name>>, "internal",
                              [tool_name |-> call.name, tool_call_id |-> call.id]))
               /\ scope' = Append(scope, [by |-> t, exit |-> "open"])
               /\ traces' = AddSpan(sid)
               /\ current_span' = [current_span EXCEPT ![CtxOf(t)] = sid]
               /\ frame' = [frame EXCEPT ![t] = [Push(t, sid) EXCEPT !.tool_span = sid]]
               /\ pc' = [pc EXCEPT ![t] = "tool_try"]
    /\ UNCHANGED <<current_trace, conversation, store, exported, running, turn>>

\* mutant of ToolFailed: the error text is recorded, the success flag is not
ToolFailedUnmarked(s, e) == SetAttribute(s, "error", e.message)

\* agent.py:131-134: the except clause of a tool call
ToolFailed(s, e) ==
    SetAttribute(SetAttribute(s, "success", FALSE), "error", e.message)

\* agent.py:126-128, 131-134: json.loads fails, or ToolRegistry.get raises
\* ToolNotFoundError (registry.py:59-60); both before any await
ToolCallRejected(t) ==
    /\ pc[t] = "tool_try"
    /\ UNCHANGED others
    /\ running = t
    /\ LET call == Head(frame[t].pending)
           e == IF call.arguments = "malformed"
                THEN Exc("JSONDecodeError", "Expecting value")
                ELSE Exc("ToolNotFoundError", <<"Tool not found: ", call.name>>)
       IN /\ call.arguments = "malformed" \/ ~IsRegistered(call.name)
          /\ spans' = [spans EXCEPT ![frame[t].tool_span] =
                 IF call.arguments = "malformed"
                 THEN ToolFailed(@, e)
                 ELSE ToolFailed(SetAttribute(@, "arguments", call.arguments), e)]
          /\ frame' = [frame EXCEPT ![t].result_str = ErrorObject(e.message)]
    /\ pc' = [pc EXCEPT ![t] = "tool_exit"]
    /\ UNCHANGED <<current_trace, current_span, traces, scope, conversation, store,
                   exported, running, turn>>

\* agent.py:126-128, registry.py:93-96: the arguments parse, the tool is
\* registered, its handler is awaited
ToolCallAwaited(t) ==
    /\ pc[t] = "tool_try"
    /\ UNCHANGED others
    /\ running = t
    /\ LET call == Head(frame[t].pending)
       IN /\ call.arguments # "malformed"
          /\ IsRegistered(call.name)
          /\ spans' = [spans EXCEPT ![frame[t].tool_span] =
                 SetAttribute(@, "arguments", call.arguments)]
    /\ pc' = [pc EXCEPT ![t] = "await_tool"]
    /\ running' = Nobody
    /\ UNCHANGED <<current_trace, current_span, traces, scope, conversation, store,
                   exported, frame, turn>>

\* registry.py:96-99, agent.py:128-134: the handler returns, or raises and
\* execute wraps the exception in ToolExecutionError
ToolHandlerDone(t) ==
    /\ pc[t] = "await_tool"
    /\ UNCHANGED others
    /\ running = Nobody
    /\ LET call == Head(frame[t].pending)
           e == Exc("ToolExecutionError", <<"Tool execution failed: ", call.name>>)
       IN IF RegisteredTools[call.name] = "returns"
          THEN /\ spans' = [spans EXCEPT ![frame[t].tool_span] =
                      SetAttribute(@, "success", TRUE)]
               /\ frame' = [frame EXCEPT ![t].result_str = ResultObject(call.name)]
          ELSE /\ spans' = [spans EXCEPT ![frame[t].tool_span] = ToolFailed(@, e)]
               /\ frame' = [frame EXCEPT ![t].result_str = ErrorObject(e.message)]
    /\ pc' = [pc EXCEPT ![t] = "tool_exit"]
    /\ running' = t
    /\ UNCHANGED <<current_trace, current_span, traces, scope, conversation, store,
                   exported, turn>>

\* mutant of ToolMessage: the call id is left out of the metadata
ToolMessageWithoutId(call, result_str) ==
    Message("tool", result_str, [tool_call_id |-> "", name |-> call.name])

\* agent.py:137-141: the tool-role message of a finished call
ToolMessage(call, result_str) ==
    Message("tool", result_str, [tool_call_id |-> call.id, name |-> call.name])

\* mutant of CloseToolSpan: the tool-result message is appended and the batch
\* goes on, but the scope of the call is not left
CloseToolSpanLeftOpen(t) ==
    /\ pc[t] = "tool_exit"
    /\ UNCHANGED others
    /\ running = t
    /\ conversation' = [conversation EXCEPT ![t] =
           AddMessage(@, ToolMessage(Head(frame[t].pending), frame[t].result_str))]
    /\ frame' = [frame EXCEPT ![t].pending = Tail(@)]
    /\ pc' = [pc EXCEPT ![t] = "tools"]
    /\ UNCHANGED <<current_trace, current_span, traces, spans, scope, store,
                   exported, running, turn>>

\* tracer.py:104, 112 and agent.py:137-142: the tool scope is left normally,
\* the tool-result message is appended
CloseToolSpan(t) ==
    /\ pc[t] = "tool_exit"
    /\ UNCHANGED others
    /\ running = t
    /\ spans' = [spans EXCEPT ![frame[t].tool_span] = SpanExitOk(@)]
    /\ scope' = [scope EXCEPT ![frame[t].tool_span].exit = "normal"]
    /\ current_span' = [current_span EXCEPT ![CtxOf(t)] = ResetTo(t)]
    /\ conversation' = [conversation EXCEPT ![t] =
           AddMessage(@, ToolMessage(Head(frame[t].pending), frame[t].result_str))]
    /\ frame' = [frame EXCEPT ![t] = [Pop(@) EXCEPT !.pending = Tail(@)]]
    /\ pc' = [pc EXCEPT ![t] = "tools"]
    /\ UNCHANGED <<current_trace, traces, store, exported, running, turn>>

\* tracer.py:104, 112: the root scope is left by a return
RootExit(t) ==
    /\ pc[t] = "root_exit"
    /\ UNCHANGED others
    /\ running = t
    /\ spans' = [spans EXCEPT ![frame[t].root_span] = SpanExitOk(@)]
    /\ scope' = [scope EXCEPT ![frame[t].root_span].exit = "normal"]
    /\ current_span' = [current_span EXCEPT ![CtxOf(t)] = ResetTo(t)]
    /\ frame' = [frame EXCEPT ![t] = Pop(@)]
    /\ pc' = [pc EXCEPT ![t] = "finally"]
    /\ UNCHANGED <<current_trace, traces, conversation, store, exported, running, turn>>

\* mutant of RootExcept: the conversation is put back to what was last saved
RootExceptRollsBack(t) ==
    /\ pc[t] = "root_except"
    /\ UNCHANGED others
    /\ running = t
    /\ spans' = [spans EXCEPT ![frame[t].root_span] = SpanExitError(@, frame[t].exc)]
    /\ scope' = [scope EXCEPT ![frame[t].root_span].exit = "raised"]
    /\ current_span' = [current_span EXCEPT ![CtxOf(t)] = ResetTo(t)]
    /\ frame' = [frame EXCEPT ![t] = Pop(@)]
    /\ pc' = [pc EXCEPT ![t] = "finally"]
    /\ conversation' = [conversation EXCEPT ![t].messages = store[t].messages]
    /\ UNCHANGED <<current_trace, traces, store, exported, running, turn>>

\* tracer.py:105-112: an exception propagates out of the root scope
RootExcept(t) ==
    /\ pc[t] = "root_except"
    /\ UNCHANGED others
    /\ running = t
    /\ spans' = [spans EXCEPT ![frame[t].root_span] = SpanExitError(@, frame[t].exc)]
    /\ scope' = [scope EXCEPT ![frame[t].root_span].exit = "raised"]
    /\ current_span' = [current_span EXCEPT ![CtxOf(t)] = ResetTo(t)]
    /\ frame' = [frame EXCEPT ![t] = Pop(@)]
    /\ pc' = [pc EXCEPT ![t] = "finally"]
    /\ UNCHANGED <<current_trace, traces, conversation, store, exported, running, turn>>

\* how send_message ends (agent.py:110, 147, 148-152): an exception raised by
\* export in the finally clause replaces the pending return or exception
Outcome(fr, exporting, export_ok) ==
    IF exporting /\ ~export_ok
    THEN [outcome |-> "raised", value |-> "", error |-> Exc("OSError", "export failed")]
    ELSE IF fr.returning
         THEN [outcome |-> "returned", value |-> fr.result, error |-> NoExc]
         ELSE [outcome |-> "raised", value |-> "", error |-> fr.exc]

\* mutant of ExportCalls: the export is made on the return path only
ExportCallsOnReturn(t, completed_trace, export_ok) ==
    IF completed_trace # None /\ frame[t].returning
    THEN Append(exported, [trace |-> completed_trace, by |-> t,
                           started |-> frame[t].trace, written |-> export_ok])
    ELSE exported

\* agent.py:151-152: the finally clause hands the trace end_trace returned to
\* the exporter, if one came back
ExportCalls(t, completed_trace, export_ok) ==
    IF completed_trace # None
    THEN Append(exported, [trace |-> completed_trace, by |-> t,
                           started |-> frame[t].trace, written |-> export_ok])
    ELSE exported

\* agent.py:148-152 and tracer.py:53-56: end_trace, then export if a trace
\* came back; export_ok: whether FileTraceExporter.export succeeds
Finally(t, export_ok) ==
    /\ pc[t] = "finally"
    /\ UNCHANGED others
    /\ running = t
    /\ LET completed_trace == current_trace
           exporting == completed_trace # None
           out == Outcome(frame[t], exporting, export_ok)
       IN /\ exporting \/ export_ok
          /\ current_trace' = None
          /\ current_span' = [current_span EXCEPT ![CtxOf(t)] = None]
          /\ exported' = ExportCalls(t, completed_trace, export_ok)
          /\ turn' = [turn EXCEPT ![t].exports = @ + Len(exported') - Len(exported),
                                  ![t].export_failed = exporting /\ ~export_ok,
                                  ![t].computed = frame[t].result,
                                  ![t].outcome = out.outcome,
                                  ![t].value = out.value,
                                  ![t].error = out.error]
    /\ pc' = [pc EXCEPT ![t] = "idle"]
    /\ running' = Nobody
    /\ frame' = [frame EXCEPT ![t] = NoFrame]
    /\ UNCHANGED <<traces, spans, scope, conversation, store>>

(* --------------------------- specifications --------------------------- *)

\* the task of the sequential specification
Solo == "A"

\* the steps of a turn under way, but for a provider reply that lists tool calls
Step(t) ==
    \/ CallProvider(t)
    \/ ProviderReturnsText(t)
    \/ \E type \in ProviderErrorTypes : ProviderRaises(t, type)
    \/ FinalReply(t)
    \/ ToolCallsReply(t)
    \/ BatchDone(t)
    \/ OpenToolSpan(t)
    \/ ToolCallRejected(t)
    \/ ToolCallAwaited(t)
    \/ ToolHandlerDone(t)
    \/ CloseToolSpan(t)
    \/ RootExit(t)
    \/ RootExcept(t)
    \/ \E export_ok \in BOOLEAN : Finally(t, export_ok)

\* one agent, its turns one after the other
Next ==
    \/ StartTurn(Solo)
    \/ Step(Solo)
    \/ \E batch \in Batches : ProviderReturnsToolCalls(Solo, batch)
    \/ Exhaust(Solo)

Spec == Init /\ [][Next]_vars

\* persistence.py:22-24: open() or json.dump raises in ConversationStore.save
SaveFailure == Exc("OSError", "save failed")

\* agent.py:103-106, persistence.py:22-24: the final reply is appended and
\* counted, then store.save raises inside the root scope
FinalReplySaveRaises(t) ==
    /\ pc[t] = "reply"
    /\ UNCHANGED others
    /\ running = t
    /\ DictGet(frame[t].response.metadata, "tool_calls", <<>>) = <<>>
    /\ conversation' = [conversation EXCEPT ![t] = AddMessage(@, frame[t].response)]
    /\ spans' = [spans EXCEPT ![frame[t].root_span] =
           SetAttribute(SetAttribute(@, "total_messages", Len(Messages(t)) + 1),
                        "iterations", frame[t].iteration + 1)]
    /\ frame' = [frame EXCEPT ![t].exc = SaveFailure]
    /\ pc' = [pc EXCEPT ![t] = "root_except"]
    /\ UNCHANGED <<current_trace, current_span, traces, scope, store, exported,
                   running, turn>>

\* agent.py:144-146, persistence.py:22-24: the loop ran max_iterations times
\* and store.save raises inside the root scope
ExhaustSaveRaises(t) ==
    /\ pc[t] = "loop"
    /\ UNCHANGED others
    /\ running = t
    /\ frame[t].iteration >= max_iterations
    /\ spans' = [spans EXCEPT ![frame[t].root_span] =
                    SetAttribute(@, "max_iterations_reached", TRUE)]
    /\ frame' = [frame EXCEPT ![t].exc = SaveFailure]
    /\ pc' = [pc EXCEPT ![t] = "root_except"]
    /\ UNCHANGED <<current_trace, current_span, traces, scope, conversation, store,
                   exported, running, turn>>

\* one agent, its turns one after the other, on a store whose save can fail
NextSave ==
    \/ StartTurn(Solo)
    \/ Step(Solo)
    \/ \E batch \in Batches : ProviderReturnsToolCalls(Solo, batch)
    \/ Exhaust(Solo)
    \/ FinalReplySaveRaises(Solo)
    \/ ExhaustSaveRaises(Solo)

SpecSave == Init /\ [][NextSave]_vars

\* the replies with tool calls that the turns under way have had
ToolReplies ==
    LET of(t) == IF pc[t] = "idle" THEN 0 ELSE turn[t].tool_replies
    IN of("A") + of("B")

\* two agents that share the global tracer, each making one turn, the two
\* turns running as concurrent tasks; the stubs stop asking for tools after MaxConcToolReplies replies, so
\* no turn comes near max_iterations
NextConc ==
    \E t \in Tasks :
        \/ (turn[t].n = 0 /\ StartTurn(t))
        \/ Step(t)
        \/ \E batch \in Batches :
              ToolReplies < MaxConcToolReplies /\ ProviderReturnsToolCalls(t, batch)

SpecConc == Init /\ [][NextConc]_vars

(* ---------------------- the tracer, called directly ------------------- *)

\* the driver makes at most MaxTraces start_trace calls and opens at most
\* MaxSpans spans
MaxTraces == 2
MaxSpans == 3

\* the exceptions the body of a scope of the driver lets through
Cancelled == Exc("CancelledError", "")
BodyFailure == Exc("ValueError", "test error")

\* how a scope can be left: normally, by an Exception, by a cancellation
Exits == {NoExc, BodyFailure, Cancelled}

\* asyncio.CancelledError derives from BaseException, not from Exception
IsException(e) == e.type # "CancelledError"

\* mutant of Restore: the current span is cleared when a scope is left
RestoreNothing(token) == None

\* _current_span.reset(token) (tracer.py:112): back to the value the variable
\* had before the set that made the token
Restore(token) == token

\* Tracer.span, the scope left (tracer.py:102-112): ended ok after a normal
\* exit, ended error by the except Exception clause; anything else passes the
\* except clause and meets the finally clause only
SpanExit(s, e) ==
    IF e = NoExc THEN SpanExitOk(s)
    ELSE IF IsException(e) THEN SpanExitError(s, e)
    ELSE s

\* a call of the driver: what it was, what it raised or returned, the scope
\* it opened or left, and what the tracer looked like when it was made
Call(op, raised, returned, sc) ==
    [op |-> op, raised |-> raised, returned |-> returned, scope |-> sc,
     was |-> Seen]

\* tracer.py:28-41: a new trace becomes the current one; _current_span is
\* left as it is
start_trace ==
    /\ Len(traces) < MaxTraces
    /\ traces' = Append(traces, Trace(EmptyDict))
    /\ current_trace' = Len(traces) + 1
    /\ driver' = [driver EXCEPT !.detached = FALSE,
                                !.last = Call("start_trace", NoExc,
                                              Len(traces) + 1, NoScope)]
    /\ UNCHANGED <<current_span, spans, scope, registry, provider, files>>
    /\ UNCHANGED agents
    /\ UNCHANGED langchain

\* mutant of NoActiveTrace: span() does not look for a current trace
NoActiveTraceUnchecked == FALSE

\* tracer.py:80: the tracer has no current trace
NoActiveTrace == current_trace = None

\* mutant of span_enter: the token is taken of the new span, not of the span
\* that was current before the scope
span_enter_token_of_new_span ==
    /\ IF NoActiveTrace
       THEN /\ driver' = [driver EXCEPT !.last =
                   Call("span", Exc("RuntimeError",
                                    "No active trace. Call start_trace() first."),
                        None, NoScope)]
            /\ UNCHANGED <<spans, scope, traces, current_span>>
       ELSE LET sid == Len(spans) + 1
                sc == [span |-> sid, token |-> sid,
                       before |-> current_span[CtxOf("A")]]
            IN /\ Len(spans) < MaxSpans
               /\ spans' = Append(spans, NewSpan("A", "work", "internal", EmptyDict))
               /\ scope' = Append(scope, [by |-> "A", exit |-> "open"])
               /\ traces' = AddSpan(sid)
               /\ current_span' = [current_span EXCEPT ![CtxOf("A")] = sid]
               /\ driver' = [driver EXCEPT !.scopes = Append(@, sc),
                                           !.last = Call("span", NoExc, sid, sc)]
    /\ UNCHANGED <<current_trace, registry, provider, files>>
    /\ UNCHANGED agents
    /\ UNCHANGED langchain

\* tracer.py:80-100: entering `with tracer.span(name)`
span_enter ==
    /\ IF NoActiveTrace
       THEN /\ driver' = [driver EXCEPT !.last =
                   Call("span", Exc("RuntimeError",
                                    "No active trace. Call start_trace() first."),
                        None, NoScope)]
            /\ UNCHANGED <<spans, scope, traces, current_span>>
       ELSE LET sid == Len(spans) + 1
                sc == [span |-> sid, token |-> current_span[CtxOf("A")],
                       before |-> current_span[CtxOf("A")]]
            IN /\ Len(spans) < MaxSpans
               /\ spans' = Append(spans, NewSpan("A", "work", "internal", EmptyDict))
               /\ scope' = Append(scope, [by |-> "A", exit |-> "open"])
               /\ traces' = AddSpan(sid)
               /\ current_span' = [current_span EXCEPT ![CtxOf("A")] = sid]
               /\ driver' = [driver EXCEPT !.scopes = Append(@, sc),
                                           !.last = Call("span", NoExc, sid, sc)]
    /\ UNCHANGED <<current_trace, registry, provider, files>>
    /\ UNCHANGED agents
    /\ UNCHANGED langchain

\* tracer.py:102-112: leaving the innermost open scope, normally (e = NoExc)
\* or with e propagating
span_exit(e) ==
    /\ driver.scopes # <<>>
    /\ LET sc == driver.scopes[Len(driver.scopes)]
       IN /\ spans' = [spans EXCEPT ![sc.span] = SpanExit(@, e)]
          /\ scope' = [scope EXCEPT ![sc.span].exit =
                          IF e = NoExc THEN "normal"
                          ELSE IF IsException(e) THEN "raised" ELSE "cancelled"]
          /\ current_span' = [current_span EXCEPT ![CtxOf("A")] = Restore(sc.token)]
          /\ driver' = [driver EXCEPT
                 !.scopes = SubSeq(@, 1, Len(@) - 1),
                 !.last = Call("exit", e, None, sc)]
    /\ UNCHANGED <<current_trace, traces, registry, provider, files>>
    /\ UNCHANGED agents
    /\ UNCHANGED langchain

\* mutant of end_trace: the trace is handed back but stays the current one
end_trace_keeps_trace ==
    /\ driver' = [driver EXCEPT !.detached = TRUE,
                                !.last = Call("end_trace", NoExc, current_trace,
                                              NoScope)]
    /\ UNCHANGED <<current_trace, current_span, traces, spans, scope, registry,
                   provider, files>>
    /\ UNCHANGED agents
    /\ UNCHANGED langchain

\* tracer.py:47-56: the current trace is handed back and forgotten, the
\* current span of the calling context cleared
end_trace ==
    /\ current_trace' = None
    /\ current_span' = [current_span EXCEPT ![CtxOf("A")] = None]
    /\ driver' = [driver EXCEPT !.detached = TRUE,
                                !.last = Call("end_trace", NoExc, current_trace,
                                              NoScope)]
    /\ UNCHANGED <<traces, spans, scope, registry, provider, files>>
    /\ UNCHANGED agents
    /\ UNCHANGED langchain

NextTracer ==
    \/ start_trace
    \/ span_enter
    \/ \E e \in Exits : span_exit(e)
    \/ end_trace

\* one task that calls start_trace, span and end_trace in any order, its
\* scopes nested as `with` blocks nest
SpecTracer == Init /\ [][NextTracer]_vars

(* ------------------------- the tool registry -------------------------- *)

\* at most MaxRegistrations calls of register
MaxRegistrations == 3

\* the names tools are registered and looked up under
ToolNames == {"echo", "boom"}

\* what a handler does when awaited
Handlers == {"returns", "raises"}

\* registry.py:9-18: ToolDefinition; the description tells two tools of one
\* name apart
ToolDefinition(name, description, handler) ==
    [name |-> name, description |-> description, handler |-> handler]

\* what a handler that fails raises
HandlerFailure == Exc("ValueError", "handler failed")

\* registry.py:59-60
ToolNotFoundError(name) == Exc("ToolNotFoundError", <<"Tool not found: ", name>>)

\* mutant of ToolExecutionError: the exception of the handler is passed on
ToolExecutionErrorUnwrapped(name, e) == e

\* registry.py:97-99: raise ToolExecutionError(f"Tool '{name}' execution
\* failed: {e}") from e
ToolExecutionError(name, e) ==
    [type |-> "ToolExecutionError",
     message |-> <<"Tool '", name, "' execution failed: ", e.message>>,
     cause |-> e]

\* mutant of Register: a name already taken keeps its tool
RegisterKeepsFirst(tools, tool) ==
    IF tool.name \in DOMAIN tools THEN tools ELSE DictSet(tools, tool.name, tool)

\* registry.py:45: self.tools[tool.name] = tool
Register(tools, tool) == DictSet(tools, tool.name, tool)

\* registry.py:39-45 register
register(name, handler) ==
    /\ Len(registry.registered) < MaxRegistrations
    /\ LET tool == ToolDefinition(name, <<"registration", Len(registry.registered) + 1>>,
                                  handler)
       IN registry' = [registry EXCEPT
              !.tools = Register(@, tool),
              !.registered = Append(@, tool),
              !.last = RegistryCall("register", name, NoExc, None, <<>>)]
    /\ UNCHANGED <<current_trace, current_span, traces, spans, scope, driver,
                   provider, files>>
    /\ UNCHANGED agents
    /\ UNCHANGED langchain

\* registry.py:47-61 get
get(name) ==
    /\ registry' = [registry EXCEPT !.last =
           IF name \notin DOMAIN registry.tools
           THEN RegistryCall("get", name, ToolNotFoundError(name), None, <<>>)
           ELSE RegistryCall("get", name, NoExc, registry.tools[name], <<>>)]
    /\ UNCHANGED <<current_trace, current_span, traces, spans, scope, driver,
                   provider, files>>
    /\ UNCHANGED agents
    /\ UNCHANGED langchain

\* registry.py:79-99 execute: get, then the handler awaited inside
\* try / except Exception
execute(name) ==
    /\ registry' = [registry EXCEPT !.last =
           IF name \notin DOMAIN registry.tools
           THEN RegistryCall("execute", name, ToolNotFoundError(name), None, <<>>)
           ELSE LET tool == registry.tools[name]
                IN IF tool.handler = "returns"
                   THEN RegistryCall("execute", name, NoExc, ResultObject(name),
                                     <<tool>>)
                   ELSE RegistryCall("execute", name,
                                     ToolExecutionError(name, HandlerFailure),
                                     None, <<tool>>)]
    /\ UNCHANGED <<current_trace, current_span, traces, spans, scope, driver,
                   provider, files>>
    /\ UNCHANGED agents
    /\ UNCHANGED langchain

NextRegistry ==
    \/ \E name \in ToolNames, handler \in Handlers : register(name, handler)
    \/ \E name \in ToolNames : get(name)
    \/ \E name \in ToolNames : execute(name)

\* one registry; tools are registered, looked up and executed in any order
SpecRegistry == Init /\ [][NextRegistry]_vars

(* --------------------------- cancelled turns -------------------------- *)

\* agent.py:89-94: the task is cancelled while provider.complete is awaited;
\* CancelledError leaves the llm_call scope (tracer.py:102-112)
CancelProviderCall(t) ==
    /\ pc[t] = "await_provider"
    /\ UNCHANGED others
    /\ running = Nobody
    /\ LeaveLlmSpan(t, SpanExit(spans[frame[t].llm_span], Cancelled))
    /\ scope' = [scope EXCEPT ![frame[t].llm_span].exit = "cancelled"]
    /\ frame' = [frame EXCEPT ![t] = [Pop(@) EXCEPT !.exc = Cancelled]]
    /\ pc' = [pc EXCEPT ![t] = "root_cancel"]
    /\ running' = t
    /\ UNCHANGED <<current_trace, traces, conversation, store, exported, turn>>

\* registry.py:95-98, agent.py:128-134: the task is cancelled while the
\* handler is awaited; CancelledError passes both except Exception clauses
\* and leaves the tool scope (tracer.py:102-112)
CancelToolCall(t) ==
    /\ pc[t] = "await_tool"
    /\ UNCHANGED others
    /\ running = Nobody
    /\ spans' = [spans EXCEPT ![frame[t].tool_span] = SpanExit(@, Cancelled)]
    /\ scope' = [scope EXCEPT ![frame[t].tool_span].exit = "cancelled"]
    /\ current_span' = [current_span EXCEPT ![CtxOf(t)] = ResetTo(t)]
    /\ frame' = [frame EXCEPT ![t] = [Pop(@) EXCEPT !.exc = Cancelled]]
    /\ pc' = [pc EXCEPT ![t] = "root_cancel"]
    /\ running' = t
    /\ UNCHANGED <<current_trace, traces, conversation, store, exported, turn>>

\* tracer.py:102-112: CancelledError propagates out of the root scope
RootCancelled(t) ==
    /\ pc[t] = "root_cancel"
    /\ UNCHANGED others
    /\ running = t
    /\ spans' = [spans EXCEPT ![frame[t].root_span] = SpanExit(@, frame[t].exc)]
    /\ scope' = [scope EXCEPT ![frame[t].root_span].exit = "cancelled"]
    /\ current_span' = [current_span EXCEPT ![CtxOf(t)] = ResetTo(t)]
    /\ frame' = [frame EXCEPT ![t] = Pop(@)]
    /\ pc' = [pc EXCEPT ![t] = "finally"]
    /\ UNCHANGED <<current_trace, traces, conversation, store, exported, running, turn>>

NextCancel ==
    \/ (turn[Solo].n = 0 /\ StartTurn(Solo))
    \/ Step(Solo)
    \/ \E batch \in Batches : ProviderReturnsToolCalls(Solo, batch)
    \/ Exhaust(Solo)
    \/ CancelProviderCall(Solo)
    \/ CancelToolCall(Solo)
    \/ RootCancelled(Solo)

\* one turn of one agent, which may be cancelled at either of its awaits
SpecCancel == Init /\ [][NextCancel]_vars

(* ------------------------ the OpenRouter provider --------------------- *)

\* at most MaxCompletes calls of complete
MaxCompletes == 2

\* what client.post can do: raise a timeout (httpx.TimeoutException), raise
\* another transport error (httpx.RequestError), or return a response
HttpStatuses == {200, 400, 401, 403, 429, 500}
HttpBodies == {"completion", "tool_calls", "not json", "no choices", "empty choices"}
HttpReplies ==
    {[kind |-> "timeout", status |-> 0, body |-> ""],
     [kind |-> "connect error", status |-> 0, body |-> ""]}
    \cup {[kind |-> "response", status |-> st, body |-> "error text"] :
            st \in HttpStatuses \ {200}}
    \cup {[kind |-> "response", status |-> 200, body |-> b] : b \in HttpBodies}

\* an exception raised `from e`
Caused(type, message, e) == [type |-> type, message |-> message, cause |-> e]

\* openrouter.py:50-57: the client property
ClientNotInitialised ==
    Caused("RuntimeError",
           "Provider not initialized. Use 'async with' context manager.", NoExc)

\* openrouter.py:115-119: what the try block raises for a reply, NoExc if it
\* gets through to the return
TryBlockRaises(reply) ==
    IF reply.kind = "timeout" THEN Exc("httpx.TimeoutException", "timed out")
    ELSE IF reply.kind = "connect error" THEN Exc("httpx.RequestError", "refused")
    ELSE IF reply.status # 200 THEN Exc("httpx.HTTPStatusError", reply.status)
    ELSE IF reply.body = "not json" THEN Exc("JSONDecodeError", "Expecting value")
    ELSE IF reply.body = "no choices" THEN Exc("KeyError", "choices")
    ELSE IF reply.body = "empty choices" THEN Exc("IndexError", "list index out of range")
    ELSE NoExc

\* openrouter.py:135-149: the except clauses; an exception none of them names
\* goes to the caller as it is
Translate(e, reply) ==
    IF e.type = "httpx.TimeoutException"
    THEN Caused("TimeoutError", "Request timed out", e)
    ELSE IF e.type = "httpx.HTTPStatusError"
    THEN IF reply.status = 401 THEN Caused("AuthenticationError", "Invalid API key", e)
         ELSE IF reply.status = 429 THEN Caused("RateLimitError", "Rate limit exceeded", e)
         ELSE IF reply.status = 400 THEN Caused("ValidationError", "Invalid request", e)
         ELSE Caused("ProviderError", <<"HTTP ", reply.status>>, e)
    ELSE IF e.type = "httpx.RequestError"
    THEN Caused("NetworkError", "Network error", e)
    ELSE Caused(e.type, e.message, NoExc)

\* openrouter.py:119-133: the assistant message made of a well-formed body
Completion(reply) ==
    IF reply.body = "tool_calls"
    THEN Message("assistant", Text(""),
                 [provider |-> "openrouter", tool_calls |-> <<ToolCall(1, CallShapes[1])>>])
    ELSE Message("assistant", Text("done"), [provider |-> "openrouter"])

\* openrouter.py:27-43 __aenter__
aenter ==
    /\ ~provider.client
    /\ provider' = [provider EXCEPT !.client = TRUE]
    /\ UNCHANGED <<current_trace, current_span, traces, spans, scope, driver,
                   registry, files>>
    /\ UNCHANGED agents
    /\ UNCHANGED langchain

\* openrouter.py:59-149 complete
complete(reply) ==
    /\ Len(provider.calls) < MaxCompletes
    /\ LET e == IF provider.client THEN TryBlockRaises(reply) ELSE ClientNotInitialised
           raised == IF e = NoExc THEN Caused("", "", NoExc)
                     ELSE IF provider.client THEN Translate(e, reply) ELSE e
       IN provider' = [provider EXCEPT !.calls = Append(@,
              [initialised |-> provider.client, reply |-> reply, raised |-> raised,
               returned |-> IF e = NoExc THEN Completion(reply) ELSE None])]
    /\ UNCHANGED <<current_trace, current_span, traces, spans, scope, driver,
                   registry, files>>
    /\ UNCHANGED agents
    /\ UNCHANGED langchain

NextProvider ==
    \/ aenter
    \/ \E reply \in HttpReplies : complete(reply)

\* one provider; complete is called before or after __aenter__, and the HTTP
\* layer answers in any of the ways above
SpecProvider == Init /\ [][NextProvider]_vars

(* -------------------------- the trace exporter ------------------------ *)

\* the traces handed to the exporter have at most MaxDocSpans spans
MaxDocSpans == 2

\* Python values, by type
PyStr(x) == <<"str", x>>
PyInt(x) == <<"int", x>>
PyFloat(x) == <<"float", x>>
PyBool(x) == <<"bool", x>>
PyNone == <<"NoneType">>
PyList(items) == <<"list", items>>
PyTuple(items) == <<"tuple", items>>
PyDatetime(x) == <<"datetime", x>>

\* the values a caller gives span.set_attribute (attributes: dict[str, Any])
AttributeValues ==
    {PyStr("value"), PyInt("1"), PyBool("True"), PyNone,
     PyList(<<PyInt("1"), PyInt("2")>>), PyTuple(<<PyInt("1"), PyInt("2")>>),
     PyDatetime("2025-01-01 00:00:00")}

\* json.dump(obj, default=str) (exporter.py:48): what the encoder writes for
\* a value; lists and tuples both become arrays, and a value of a type the
\* encoder does not know is written as the string str(value)
RECURSIVE JsonDump(_)
JsonDump(v) ==
    IF v[1] = "str" THEN <<"string", v[2]>>
    ELSE IF v[1] = "int" THEN <<"integer", v[2]>>
    ELSE IF v[1] = "float" THEN <<"real", v[2]>>
    ELSE IF v[1] = "bool" THEN <<"boolean", v[2]>>
    ELSE IF v[1] = "NoneType" THEN <<"null">>
    ELSE IF v[1] \in {"list", "tuple"}
    THEN <<"array", [i \in DOMAIN v[2] |-> JsonDump(v[2][i])]>>
    ELSE <<"string", v[2]>>

\* json.load (exporter.py:125-126): the value read back
RECURSIVE JsonLoad(_)
JsonLoad(j) ==
    IF j[1] = "string" THEN PyStr(j[2])
    ELSE IF j[1] = "integer" THEN PyInt(j[2])
    ELSE IF j[1] = "real" THEN PyFloat(j[2])
    ELSE IF j[1] = "boolean" THEN PyBool(j[2])
    ELSE IF j[1] = "null" THEN PyNone
    ELSE PyList([i \in DOMAIN j[2] |-> JsonLoad(j[2][i])])

\* a dict with string keys, written and read back key by key
DumpDict(d) == [k \in DOMAIN d |-> JsonDump(d[k])]
LoadDict(d) == [k \in DOMAIN d |-> JsonLoad(d[k])]

Optional(x) == IF x = None THEN PyNone ELSE PyStr(x)

\* mutant of serialize_span: the attributes are left out
serialize_span_without_attributes(sid) ==
    LET s == spans[sid]
    IN [trace_id |-> PyStr(s.trace_id), span_id |-> PyStr(sid),
        parent_span_id |-> Optional(s.parent_span_id), name |-> PyStr(s.name),
        kind |-> PyStr(s.kind), status |-> PyStr(s.status),
        start_time |-> PyStr("isoformat"),
        end_time |-> IF s.ended THEN PyStr("isoformat") ELSE PyNone,
        duration_ms |-> IF s.ended THEN PyFloat("ms") ELSE PyNone,
        attributes |-> EmptyDict, events |-> PyList(s.events)]

\* exporter.py:70-91 _serialize_span, with Span.duration_ms (models.py:84-90)
serialize_span(sid) ==
    LET s == spans[sid]
    IN [trace_id |-> PyStr(s.trace_id), span_id |-> PyStr(sid),
        parent_span_id |-> Optional(s.parent_span_id), name |-> PyStr(s.name),
        kind |-> PyStr(s.kind), status |-> PyStr(s.status),
        start_time |-> PyStr("isoformat"),
        end_time |-> IF s.ended THEN PyStr("isoformat") ELSE PyNone,
        duration_ms |-> IF s.ended THEN PyFloat("ms") ELSE PyNone,
        attributes |-> s.attributes, events |-> PyList(s.events)]

\* models.py:117-131 Trace.duration_ms: that of the first span without a
\* parent, if there is one and it has ended
TraceDuration(tid) ==
    LET roots == {k \in DOMAIN traces[tid].spans :
                     spans[traces[tid].spans[k]].parent_span_id = None}
    IN IF roots = {} THEN PyNone
       ELSE LET first == CHOOSE k \in roots : \A j \in roots : k <= j
            IN IF spans[traces[tid].spans[first]].ended THEN PyFloat("ms") ELSE PyNone

\* exporter.py:52-68 _serialize_trace
serialize_trace(tid) ==
    [trace_id |-> PyStr(tid), service_name |-> PyStr(traces[tid].service_name),
     created_at |-> PyStr("isoformat"), duration_ms |-> TraceDuration(tid),
     attributes |-> traces[tid].attributes,
     spans |-> [k \in DOMAIN traces[tid].spans |-> serialize_span(traces[tid].spans[k])]]

\* the document json.dump writes for a serialized span or trace
DumpSpan(d) ==
    [k \in DOMAIN d |-> IF k = "attributes" THEN DumpDict(d[k]) ELSE JsonDump(d[k])]
DumpTrace(d) ==
    [k \in DOMAIN d |->
        IF k = "attributes" THEN DumpDict(d[k])
        ELSE IF k = "spans" THEN [i \in DOMAIN d[k] |-> DumpSpan(d[k][i])]
        ELSE JsonDump(d[k])]

\* the dict json.load makes of a document
LoadSpan(j) ==
    [k \in DOMAIN j |-> IF k = "attributes" THEN LoadDict(j[k]) ELSE JsonLoad(j[k])]
LoadTrace(j) ==
    [k \in DOMAIN j |->
        IF k = "attributes" THEN LoadDict(j[k])
        ELSE IF k = "spans" THEN [i \in DOMAIN j[k] |-> LoadSpan(j[k][i])]
        ELSE JsonLoad(j[k])]

\* exporter.py:36-44: output_dir / date / trace_{time}_{trace_id[:8]}.json
Location(tid) == <<"data/traces", "date", "trace_", "time", tid>>

\* the trace was handed to the exporter
Exported(tid) == Location(tid) \in DOMAIN files.written

\* Trace() (observability_test.py:183); one trace is built, then exported,
\* then loaded
new_trace ==
    /\ traces = <<>>
    /\ traces' = Append(traces, Trace(EmptyDict))
    /\ UNCHANGED <<current_trace, current_span, spans, scope, driver, registry,
                   provider, files>>
    /\ UNCHANGED agents
    /\ UNCHANGED langchain

\* Span(trace_id, name), set_attribute("key", value) if with_attribute,
\* trace.add_span(span) (observability_test.py:184-187)
new_span(tid, with_attribute, value) ==
    /\ ~Exported(tid)
    /\ Len(traces[tid].spans) < MaxDocSpans
    /\ LET s == Span(tid, None, "test-span", "internal", EmptyDict)
       IN spans' = Append(spans, IF with_attribute
                                 THEN SetAttribute(s, "key", value) ELSE s)
    /\ scope' = Append(scope, [by |-> "A", exit |-> "none"])
    /\ traces' = [traces EXCEPT ![tid].spans = Append(@, Len(spans) + 1)]
    /\ UNCHANGED <<current_trace, current_span, driver, registry, provider, files>>
    /\ UNCHANGED agents
    /\ UNCHANGED langchain

\* span.end() (models.py:53-60)
end_span(sid) ==
    /\ ~Exported(spans[sid].trace_id)
    /\ ~spans[sid].ended
    /\ spans' = [spans EXCEPT ![sid] = SpanEnd(@, "ok")]
    /\ UNCHANGED <<current_trace, current_span, traces, scope, driver, registry,
                   provider, files>>
    /\ UNCHANGED agents
    /\ UNCHANGED langchain

\* exporter.py:25-50 export
export(tid) ==
    /\ ~Exported(tid)
    /\ files' = [files EXCEPT
           !.written = DictSet(@, Location(tid), DumpTrace(serialize_trace(tid))),
           !.exported = DictSet(@, Location(tid),
                                [trace_id |-> tid,
                                 spans |-> [k \in DOMAIN traces[tid].spans |->
                                               spans[traces[tid].spans[k]]]])]
    /\ UNCHANGED <<current_trace, current_span, traces, spans, scope, driver,
                   registry, provider>>
    /\ UNCHANGED agents
    /\ UNCHANGED langchain

\* exporter.py:116-126 load_trace
load_trace(location) ==
    /\ files' = [files EXCEPT !.loaded =
           [location |-> location, document |-> LoadTrace(files.written[location])]]
    /\ UNCHANGED <<current_trace, current_span, traces, spans, scope, driver,
                   registry, provider>>
    /\ UNCHANGED agents
    /\ UNCHANGED langchain

NextExporter ==
    \/ new_trace
    \/ \E tid \in DOMAIN traces, with_attribute \in BOOLEAN, value \in AttributeValues :
          new_span(tid, with_attribute, value)
    \/ \E sid \in DOMAIN spans : end_span(sid)
    \/ \E tid \in DOMAIN traces : export(tid)
    \/ \E location \in DOMAIN files.written : load_trace(location)

\* traces built by hand, exported and loaded back
SpecExporter == Init /\ [][NextExporter]_vars

(* ------------------------- a span on its own -------------------------- *)

\* a span is given at most MaxEvents events
MaxEvents == 2

\* the statuses a span is ended with (models.py:11-16)
EndStatuses == {"ok", "error"}

\* the keys, values and event names the caller of a span uses
AttributeKeys == {"key", "other"}
AttributeNumbers == {1, 2}
EventNames == {"retry", "done"}

\* Span(trace_id=..., name=...) (observability_test.py:36)
Span_new ==
    /\ spans = <<>>
    /\ spans' = <<Span("trace-1", None, "test-span", "internal", EmptyDict)>>
    /\ scope' = <<[by |-> "A", exit |-> "none"]>>
    /\ UNCHANGED <<current_trace, current_span, traces, driver, registry,
                   provider, files>>
    /\ UNCHANGED agents
    /\ UNCHANGED langchain

\* models.py:53-60 Span.end: end_time and status are assigned, whatever they
\* were
Span_end(sid, status) ==
    /\ spans' = [spans EXCEPT ![sid] = SpanEnd(@, status)]
    /\ UNCHANGED <<current_trace, current_span, traces, scope, driver, registry,
                   provider, files>>
    /\ UNCHANGED agents
    /\ UNCHANGED langchain

\* models.py:62-69 Span.set_attribute
Span_set_attribute(sid, key, value) ==
    /\ spans' = [spans EXCEPT ![sid] = SetAttribute(@, key, value)]
    /\ UNCHANGED <<current_trace, current_span, traces, scope, driver, registry,
                   provider, files>>
    /\ UNCHANGED agents
    /\ UNCHANGED langchain

\* models.py:71-82 Span.add_event
Span_add_event(sid, name) ==
    /\ Len(spans[sid].events) < MaxEvents
    /\ spans' = [spans EXCEPT ![sid].events =
                    Append(@, [name |-> name, attributes |-> EmptyDict])]
    /\ UNCHANGED <<current_trace, current_span, traces, scope, driver, registry,
                   provider, files>>
    /\ UNCHANGED agents
    /\ UNCHANGED langchain

NextSpan ==
    \/ Span_new
    \/ \E sid \in DOMAIN spans, status \in EndStatuses : Span_end(sid, status)
    \/ \E sid \in DOMAIN spans, key \in AttributeKeys, value \in AttributeNumbers :
          Span_set_attribute(sid, key, value)
    \/ \E sid \in DOMAIN spans, name \in EventNames : Span_add_event(sid, name)

\* one span, its methods called in any order
SpecSpan == Init /\ [][NextSpan]_vars

(* ------------------ the LangChain callback handler -------------------- *)

MaxCallbacks == 4

\* what the LangChain agent and its handler never touch
detective == <<current_trace, current_span, traces, spans, scope, driver,
               registry, provider, files>>

\* the run ids LangChain hands to the callbacks (test_observability.py:60, 90)
RunIds == {"run-123", "tool-run-1"}

\* response.llm_output as on_llm_end can find it: not a dict, a dict without
\* token_usage, a dict with the usage counts, a dict whose token_usage is None
LlmOutputs == {"not a dict", "no token_usage", "token_usage", "token_usage None"}

\* a span as tracer.start_span hands it out; ends counts the calls of end()
OtelSpan(name, attributes) == [name |-> name, attributes |-> attributes, ends |-> 0]

\* span.end()
OtelEnd(s) == [s EXCEPT !.ends = @ + 1]

\* span.set_attribute(key, value)
OtelSet(s, key, value) == [s EXCEPT !.attributes = DictSet(@, key, value)]

\* self.spans.pop(run_id, None)
DictPop(d, k) == [x \in DOMAIN d \ {k} |-> d[x]]

\* callbacks.py:43-47: llm_output.get("token_usage", {}) hands back what the
\* key holds, the default only when the key is missing
TokenUsage(llm_output) ==
    IF llm_output = "token_usage"
    THEN [prompt_tokens |-> 10, completion_tokens |-> 5, total_tokens |-> 15]
    ELSE [prompt_tokens |-> 0, completion_tokens |-> 0, total_tokens |-> 0]

\* a callback received: which one, for which run, and what it raised; the
\* map and the spans as the callback found them are kept in last
Received(op, run_id, raised) ==
    [callbacks EXCEPT !.log = Append(@, [op |-> op, run_id |-> run_id]),
                      !.last = [raised |-> raised, spans |-> callbacks.spans,
                                started |-> callbacks.started]]

\* callbacks.py:24-31 and 66-73: a span is started and put in the map under
\* the run id, whatever the map held there
Started(op, run_id, span) ==
    [Received(op, run_id, NoExc) EXCEPT
        !.started = Append(@, span),
        !.spans = DictSet(@, run_id, Len(callbacks.started) + 1)]

\* callbacks.py:36-39, 49-50 and alike: nothing for a run id the map does not
\* hold; else the span, with what the callback recorded on it, is ended and
\* taken out of the map
Ended(op, run_id, recorded) ==
    IF run_id \notin DOMAIN callbacks.spans
    THEN Received(op, run_id, NoExc)
    ELSE [Received(op, run_id, NoExc) EXCEPT
             !.started[callbacks.spans[run_id]] = OtelEnd(recorded),
             !.spans = DictPop(@, run_id)]

\* span = self.spans.get(run_id), for a run id the map holds
SpanOf(run_id) == callbacks.started[callbacks.spans[run_id]]

\* callbacks.py:24-31
on_llm_start(run_id) ==
    /\ Len(callbacks.log) < MaxCallbacks
    /\ callbacks' = Started("on_llm_start", run_id,
           OtelSet(OtelSet(OtelSpan("llm_call", EmptyDict), "model", "test-model"),
                   "prompts_count", 1))
    /\ UNCHANGED <<detective, investigator>>
    /\ UNCHANGED agents

\* callbacks.py:33-50
on_llm_end(run_id, llm_output) ==
    /\ Len(callbacks.log) < MaxCallbacks
    /\ LET usage == TokenUsage(llm_output)
           recorded ==
               IF llm_output = "not a dict" THEN SpanOf(run_id)
               ELSE OtelSet(OtelSet(OtelSet(SpanOf(run_id),
                        "input_tokens", usage.prompt_tokens),
                        "output_tokens", usage.completion_tokens),
                        "total_tokens", usage.total_tokens)
       IN IF run_id \in DOMAIN callbacks.spans /\ llm_output = "token_usage None"
          THEN \* None.get: raised before anything is set or ended
               callbacks' = Received("on_llm_end", run_id,
                   Exc("AttributeError", "'NoneType' object has no attribute 'get'"))
          ELSE callbacks' = Ended("on_llm_end", run_id, recorded)
    /\ UNCHANGED <<detective, investigator>>
    /\ UNCHANGED agents

\* callbacks.py:52-62
on_llm_error(run_id) ==
    /\ Len(callbacks.log) < MaxCallbacks
    /\ callbacks' = Ended("on_llm_error", run_id, OtelSet(SpanOf(run_id), "error", "model failed"))
    /\ UNCHANGED <<detective, investigator>>
    /\ UNCHANGED agents

\* callbacks.py:66-73
on_tool_start(run_id) ==
    /\ Len(callbacks.log) < MaxCallbacks
    /\ callbacks' = Started("on_tool_start", run_id,
           OtelSet(OtelSet(OtelSpan("tool_execution", EmptyDict),
                           "tool_name", "my_tool"),
                   "input", "input-data"))
    /\ UNCHANGED <<detective, investigator>>
    /\ UNCHANGED agents

\* callbacks.py:75-85
on_tool_end(run_id) ==
    /\ Len(callbacks.log) < MaxCallbacks
    /\ callbacks' = Ended("on_tool_end", run_id, OtelSet(SpanOf(run_id), "output", "output-data"))
    /\ UNCHANGED <<detective, investigator>>
    /\ UNCHANGED agents

\* callbacks.py:87-97
on_tool_error(run_id) ==
    /\ Len(callbacks.log) < MaxCallbacks
    /\ callbacks' = Ended("on_tool_error", run_id, OtelSet(SpanOf(run_id), "error", "tool failed"))
    /\ UNCHANGED <<detective, investigator>>
    /\ UNCHANGED agents

NextCallbacks ==
    \/ \E run_id \in RunIds : on_llm_start(run_id)
    \/ \E run_id \in RunIds, llm_output \in LlmOutputs : on_llm_end(run_id, llm_output)
    \/ \E run_id \in RunIds : on_llm_error(run_id)
    \/ \E run_id \in RunIds : on_tool_start(run_id)
    \/ \E run_id \in RunIds : on_tool_end(run_id)
    \/ \E run_id \in RunIds : on_tool_error(run_id)

\* one handler, its callbacks arriving in any order
SpecCallbacks == Init /\ [][NextCallbacks]_vars

(* ----------------------- the LangChain agent -------------------------- *)

MaxSends == 3

\* what the callers say and what the model answers (test_agent.py:44, 59)
UserMessages == {"Hello", "again"}
Replies == {"Mock response", "ok"}

\* what llm.ainvoke raises when the call fails
ModelFailures == {Exc("RateLimitError", "rate limited"),
                  Exc("APITimeoutError", "timed out")}

\* HumanMessage(content=...), AIMessage(content=...), SystemMessage(...)
ChatMessage(type, content) == [type |-> type, content |-> content]

\* agent.py:101-105: the system prompt, the history, the new human message
ModelInput(history, user_message) ==
    <<ChatMessage("system", "You are the Investigator Agent")>>
        \o history \o <<ChatMessage("human", user_message)>>

\* mutant of Persist: the reply is kept, the user message is not
PersistReplyOnly(memory, user_message, content) ==
    memory \o <<ChatMessage("ai", content)>>

\* agent.py:112-113: add_user_message, then add_ai_message
Persist(memory, user_message, content) ==
    memory \o <<ChatMessage("human", user_message), ChatMessage("ai", content)>>

\* agent.py:120: f"Error: {exc}"
ErrorReply(exc) == <<"Error: ", exc.message>>

\* the send_message calls under way are numbered as they start
SendIds == 1..MaxSends

\* how a call of the agent ended
Finished(op, user_message, outcome, value, error) ==
    [op |-> op, user_message |-> user_message, before |-> investigator.memory,
     outcome |-> outcome, value |-> value, error |-> error]

\* agent.py:89-109: send_message up to its await: the messages for the model
\* are composed of the history as it is now
send_message(user_message) ==
    /\ investigator.sends < MaxSends
    /\ LET id == investigator.sends + 1
       IN investigator' = [investigator EXCEPT
              !.sends = id,
              !.pending = DictSet(@, id,
                  [user_message |-> user_message,
                   messages |-> ModelInput(investigator.memory, user_message)])]
    /\ UNCHANGED <<detective, callbacks>>
    /\ UNCHANGED agents

\* agent.py:109-115: ainvoke returns; both messages are added to the memory
\* and the content of the reply is returned
model_replies(id, content) ==
    /\ id \in DOMAIN investigator.pending
    /\ LET call == investigator.pending[id]
       IN investigator' = [investigator EXCEPT
              !.memory = Persist(@, call.user_message, content),
              !.pending = DictPop(@, id),
              !.last = Finished("send_message", call.user_message, "returned",
                                <<content>>, NoExc)]
    /\ UNCHANGED <<detective, callbacks>>
    /\ UNCHANGED agents

\* agent.py:109, 117-120: ainvoke raises an Exception; the except clause
\* returns the error text
model_fails(id, exc) ==
    /\ id \in DOMAIN investigator.pending
    /\ LET call == investigator.pending[id]
       IN investigator' = [investigator EXCEPT
              !.pending = DictPop(@, id),
              !.last = Finished("send_message", call.user_message, "returned",
                                ErrorReply(exc), exc)]
    /\ UNCHANGED <<detective, callbacks>>
    /\ UNCHANGED agents

\* agent.py:109, 117: the task is cancelled at the await; CancelledError is
\* no Exception and leaves send_message
model_call_cancelled(id) ==
    /\ id \in DOMAIN investigator.pending
    /\ LET call == investigator.pending[id]
       IN investigator' = [investigator EXCEPT
              !.pending = DictPop(@, id),
              !.last = Finished("send_message", call.user_message, "raised",
                                <<>>, Cancelled)]
    /\ UNCHANGED <<detective, callbacks>>
    /\ UNCHANGED agents

\* agent.py:125-128: self.memory.clear()
reset_conversation ==
    /\ investigator' = [investigator EXCEPT
           !.memory = <<>>,
           !.last = Finished("reset_conversation", "", "returned", <<>>, NoExc)]
    /\ UNCHANGED <<detective, callbacks>>
    /\ UNCHANGED agents

NextInvestigator ==
    \/ \E user_message \in UserMessages : send_message(user_message)
    \/ \E id \in SendIds, content \in Replies : model_replies(id, content)
    \/ \E id \in SendIds, exc \in ModelFailures : model_fails(id, exc)
    \/ \E id \in SendIds : model_call_cancelled(id)
    \/ reset_conversation

\* one agent; its send_message calls may overlap at the await
SpecInvestigator == Init /\ [][NextInvestigator]_vars

(* ------------------------------ claims -------------------------------- *)

Active(t) == pc[t] # "idle"

\* how often the exporter was handed trace tr
ExportsOf(tr) == Cardinality({i \in DOMAIN exported : exported[i].trace = tr})

\* trace tr is the trace of a turn that has not reached its end_trace yet
InUse(tr) == \E t \in Tasks : Active(t) /\ frame[t].trace = tr

C2_EachTurnItsOwnTrace ==
    /\ \A t \in Tasks :
          Active(t) =>
             /\ current_trace = frame[t].trace
             /\ \A s \in {frame[t].root_span, frame[t].llm_span, frame[t].tool_span} \ {None} :
                   /\ spans[s].trace_id = frame[t].trace
                   /\ \E i \in DOMAIN traces[frame[t].trace].spans :
                         traces[frame[t].trace].spans[i] = s
    /\ \A i \in DOMAIN exported : exported[i].trace = exported[i].started
    /\ \A t \in Tasks : ~Active(t) /\ turn[t].n > 0 => turn[t].exports = 1

\* C3 (state part): the ambient current span of a task is a span that task
\* opened itself, never one opened by another task
C3_OwnSpan ==
    \A b \in Tasks :
        current_span[CtxOf(b)] # None => scope[current_span[CtxOf(b)]].by = b

\* C3 (step part): what get_current_span() returns in task b changes only in
\* steps of b itself
C3_OwnSteps ==
    \A b \in Tasks :
        current_span'[CtxOf(b)] # current_span[CtxOf(b)] => pc'[b] # pc[b]

\* C3: the ambient current span is scoped per task: a task never sees a span
\* opened by another task as its current span, and entering or leaving span
\* scopes in one task never changes the current span of another.
C3_CurrentSpanPerTask == [](C3_OwnSpan) /\ [][C3_OwnSteps]_vars

\* both tasks are inside span scopes of their own at the same time
C3_Witness ==
    /\ current_span[CtxOf("A")] # None
    /\ current_span[CtxOf("B")] # None
    /\ scope[current_span[CtxOf("A")]].exit = "open"
    /\ scope[current_span[CtxOf("B")]].exit = "open"
    /\ pc["A"] = "await_provider"
    /\ pc["B"] = "await_tool"

\* C4: when send_message has computed its user-visible result, the caller
\* gets that result, also when the export fails afterwards.
C4_ResultSurvivesExportFailure ==
    \A t \in Tasks :
        ~Active(t) /\ turn[t].computed # ""
            => turn[t].outcome = "returned" /\ turn[t].value = turn[t].computed

ToolCallsOf(m) ==
    IF m.role = "assistant" THEN DictGet(m.metadata, "tool_calls", <<>>) ELSE <<>>

InBatch(t) == pc[t] \in {"tools", "tool_try", "await_tool", "tool_exit"}

\* the i-th message of msgs is an assistant message that lists calls, and the
\* tool-role messages that answer them follow it as C6 says
Answered(t, msgs, i) ==
    LET calls == ToolCallsOf(msgs[i])
        k == Len(calls)
    IN /\ \A j \in 1..k :
             i + j <= Len(msgs) =>
                /\ msgs[i + j].role = "tool"
                /\ msgs[i + j].metadata["tool_call_id"] = calls[j].id
                /\ msgs[i + j].metadata["name"] = calls[j].name
       /\ i + k < Len(msgs) => msgs[i + k + 1].role # "tool"
       /\ i + k > Len(msgs) => InBatch(t) /\ Len(frame[t].pending) = i + k - Len(msgs)

\* C6: a provider reply with k >= 1 tool calls is followed in the
\* conversation, directly, by exactly k tool-role messages, one per call in
\* the provider's order, the i-th with the i-th call's id and tool name in its
\* metadata, whether the calls succeed or fail (while the batch is being
\* worked on, by the messages of the calls done so far).
C6_OneToolMessagePerCall ==
    \A t \in Tasks :
        \A i \in 1..Len(Messages(t)) :
            ToolCallsOf(Messages(t)[i]) # <<>> => Answered(t, Messages(t), i)

\* a batch of two calls, the first failing and the second succeeding, has been
\* answered in full
C6_Witness ==
    /\ pc[Solo] = "loop"
    /\ Len(Messages(Solo)) = 4
    /\ Len(ToolCallsOf(Messages(Solo)[2])) = 2
    /\ Messages(Solo)[3].content[1] = "json-error"
    /\ Messages(Solo)[4].content[1] = "json"
    /\ Messages(Solo)[3].metadata["tool_call_id"] = CallId(1)
    /\ Messages(Solo)[4].metadata["tool_call_id"] = CallId(2)

\* every turn made so far had one provider call, answered without tool calls:
\* its trace holds the root span and one llm_call span, both ended ok
ToolFreeSoFar ==
    \A tr \in 1..Len(traces) :
        /\ Len(traces[tr].spans) = 2
        /\ \A i \in 1..2 : spans[traces[tr].spans[i]].status = "ok"

\* C7: after n consecutive turns in which the provider answered without
\* requesting a tool call, the conversation holds exactly 2n messages, user
\* message and assistant reply in turn.
C7_TwoMessagesPerToolFreeTurn ==
    \A t \in Tasks :
        ~Active(t) /\ ToolFreeSoFar =>
            /\ Len(Messages(t)) = 2 * turn[t].n
            /\ \A i \in 1..Len(Messages(t)) :
                  /\ Messages(t)[i].role = IF i % 2 = 1 THEN "user" ELSE "assistant"
                  /\ i % 2 = 1 => Messages(t)[i].content = UserText((i + 1) \div 2)
                  /\ ToolCallsOf(Messages(t)[i]) = <<>>

\* two tool-free turns have been made
C7_Witness ==
    /\ ~Active(Solo)
    /\ ToolFreeSoFar
    /\ turn[Solo].n = 2
    /\ Len(Messages(Solo)) = 4

\* the call fails: malformed arguments, an unregistered tool, or a handler
\* that raises
Fails(call) ==
    \/ call.arguments = "malformed"
    \/ ~IsRegistered(call.name)
    \/ RegisteredTools[call.name] = "raises"

\* task t stands at the loop head after a batch that held a failing call
AfterFailedBatch(t) ==
    /\ pc[t] = "loop"
    /\ frame[t].iteration > 0
    /\ \E j \in DOMAIN frame[t].tool_calls : Fails(frame[t].tool_calls[j])

\* C8 (state part): a failing call leaves one tool-role message whose content
\* is an error object, a succeeding call one with its result; the remaining
\* calls of the batch are worked on all the same, and the only exceptions that
\* end a turn are the provider's
C8_FailuresAbsorbed ==
    \A t \in Tasks :
        /\ \A i \in 1..Len(Messages(t)) :
              LET calls == ToolCallsOf(Messages(t)[i])
              IN \A j \in 1..Len(calls) :
                    i + j <= Len(Messages(t)) =>
                       /\ Messages(t)[i + j].role = "tool"
                       /\ Messages(t)[i + j].metadata["tool_call_id"] = calls[j].id
                       /\ Messages(t)[i + j].content[1] =
                             IF Fails(calls[j]) THEN "json-error" ELSE "json"
        /\ AfterFailedBatch(t) =>
              LET k == Len(frame[t].tool_calls)
                  n == Len(Messages(t))
              IN /\ n > k
                 /\ ToolCallsOf(Messages(t)[n - k]) = frame[t].tool_calls
        /\ frame[t].exc # NoExc => frame[t].exc.type \in ProviderErrorTypes

\* C8 as claimed (step part): after a batch with a failing call the provider
\* is called again
C8_ThenProviderCalled ==
    \A t \in Tasks :
        AfterFailedBatch(t) /\ pc'[t] # "loop"
            => turn'[t].provider_calls = turn[t].provider_calls + 1

\* C8 as claimed: a failing tool call never aborts the turn: it leaves one
\* error-bearing tool-role message, the rest of the batch is worked on, and
\* then the provider is called again.
C8_AsClaimed == [](C8_FailuresAbsorbed) /\ [][C8_ThenProviderCalled]_vars

\* C8 amended (step part): after a batch with a failing call the provider is
\* called again, unless the batch was that of the 10th iteration: then the
\* turn saves the conversation and ends with the exhaustion message
C8_ThenLoopGoesOn ==
    \A t \in Tasks :
        AfterFailedBatch(t) /\ pc'[t] # "loop" =>
            IF frame[t].iteration < 10
            THEN turn'[t].provider_calls = turn[t].provider_calls + 1
            ELSE /\ frame'[t].returning
                 /\ frame'[t].result = Exhausted
                 /\ turn'[t].saves = turn[t].saves + 1

\* C8 amended: a failing tool call never aborts the turn: it leaves one
\* error-bearing tool-role message, the rest of the batch is worked on, and
\* then the provider is called again or, after the 10th iteration, the turn
\* ends with the exhaustion message.
C8_FailingCallNeverAborts == [](C8_FailuresAbsorbed) /\ [][C8_ThenLoopGoesOn]_vars

\* after a batch whose first call failed and whose second call succeeded the
\* provider has been called again
C8_Witness ==
    /\ pc[Solo] = "await_provider"
    /\ frame[Solo].iteration = 1
    /\ Len(frame[Solo].tool_calls) = 2
    /\ Fails(frame[Solo].tool_calls[1])
    /\ ~Fails(frame[Solo].tool_calls[2])
    /\ Len(Messages(Solo)) = 4
    /\ Messages(Solo)[3].content[1] = "json-error"
    /\ turn[Solo].provider_calls = 2

\* the turn of task t has reached its terminal outcome
Terminal(t) == pc[t] \in {"root_exit", "root_except", "finally"}

C11_ScopesNestAsStack ==
    LET last == driver.last
    IN /\ last.op = "span" /\ last.raised = NoExc =>
              spans[last.returned].parent_span_id = last.was.span
       /\ \A k \in DOMAIN driver.scopes :
              spans[driver.scopes[k].span].parent_span_id = driver.scopes[k].before
       /\ last.op = "exit" => current_span[CtxOf("A")] = last.scope.before

\* an inner scope, opened inside another, was left by an exception and the
\* current span is the outer scope's span again
C11_Witness ==
    /\ driver.last.op = "exit"
    /\ driver.last.raised = BodyFailure
    /\ driver.last.was.depth >= 2
    /\ driver.last.scope.before # None
    /\ current_span[CtxOf("A")] = driver.last.scope.before

\* C12: tracer.span with no current trace raises before the body of the scope
\* runs: no scope is opened, no span is created or added to any trace, and
\* the current span stays what it was.
C12_SpanNeedsTrace ==
    LET last == driver.last
    IN last.op = "span" /\ last.was.trace = None =>
          /\ last.raised.type = "RuntimeError"
          /\ last.scope = NoScope
          /\ Len(driver.scopes) = last.was.depth
          /\ Len(spans) = last.was.nspans
          /\ traces = last.was.traces
          /\ current_span[CtxOf("A")] = last.was.span

\* span() was refused after a trace had been ended, while a span was still
\* the current one
C12_Witness ==
    /\ driver.last.op = "span"
    /\ driver.last.was.trace = None
    /\ driver.last.was.span # None
    /\ driver.last.raised.type = "RuntimeError"
    /\ Len(traces) > 0

\* C13: end_trace returns the trace that was current and detaches it: right
\* after the call the tracer has no current trace and no current span, and as
\* long as start_trace is not called the tracer stays without a current trace,
\* so that a further end_trace returns null.
C13_EndTraceDetaches ==
    LET last == driver.last
    IN /\ last.op = "end_trace" =>
              /\ last.returned = last.was.trace
              /\ current_trace = None
              /\ current_span[CtxOf("A")] = None
       /\ driver.detached => current_trace = None
       /\ last.op = "end_trace" /\ last.was.detached => last.returned = None

\* a second end_trace, made while a scope opened in the ended trace was still
\* open, came back with null
C13_Witness ==
    /\ driver.last.op = "end_trace"
    /\ driver.last.was.detached
    /\ driver.last.was.depth > 0
    /\ driver.last.returned = None
    /\ Len(traces[1].spans) > 0

\* the calls of register made so far for this name
RegistrationsOf(name) ==
    {i \in DOMAIN registry.registered : registry.registered[i].name = name}

\* the tool most recently registered under this name
LatestOf(name) ==
    registry.registered[CHOOSE i \in RegistrationsOf(name) :
                            \A j \in RegistrationsOf(name) : j <= i]

C15_LastRegistrationWins ==
    LET last == registry.last
    IN /\ DOMAIN registry.tools = {name \in ToolNames : RegistrationsOf(name) # {}}
       /\ \A name \in DOMAIN registry.tools : registry.tools[name] = LatestOf(name)
       /\ last.op = "register" => last.raised = NoExc
       /\ last.op = "get" =>
             IF RegistrationsOf(last.name) = {}
             THEN last.raised.type = "ToolNotFoundError"
             ELSE last.raised = NoExc /\ last.returned = LatestOf(last.name)
       /\ last.op = "execute" /\ RegistrationsOf(last.name) # {} =>
             last.invoked = <<LatestOf(last.name)>>

\* a name was registered twice, with different handlers, and get returned
\* the second tool
C15_Witness ==
    /\ registry.last.op = "get"
    /\ \E i, j \in RegistrationsOf(registry.last.name) :
          /\ i < j
          /\ registry.registered[i].handler # registry.registered[j].handler
          /\ registry.last.returned = registry.registered[j]
          /\ j = Len(registry.registered)

\* the spans whose scope was left by a cancellation
Interrupted == {sid \in DOMAIN scope : scope[sid].exit = "cancelled"}

\* C16: when a turn is cancelled while a provider call or a tool handler is
\* in flight, its trace is still ended and exported, once, with the spans
\* made so far, and the span that was open when the cancellation struck and
\* the root span around it are ended with status error.
C16_CancelledTurnLeavesErrorSpans ==
    /\ \A sid \in Interrupted :
          pc[scope[sid].by] = "idle" =>
              /\ current_trace = None
              /\ ExportsOf(spans[sid].trace_id) = 1
              /\ sid \in {traces[spans[sid].trace_id].spans[k] :
                            k \in DOMAIN traces[spans[sid].trace_id].spans}
    /\ \A sid \in Interrupted : spans[sid].ended /\ spans[sid].status = "error"

\* providers/errors.py: the six typed provider errors
TypedProviderErrors ==
    {"AuthenticationError", "RateLimitError", "ValidationError", "ProviderError",
     "TimeoutError", "NetworkError"}

\* the typed error claimed for what the HTTP layer did
ClaimedError(reply) ==
    IF reply.kind = "timeout" THEN "TimeoutError"
    ELSE IF reply.kind = "connect error" THEN "NetworkError"
    ELSE IF reply.status = 401 THEN "AuthenticationError"
    ELSE IF reply.status = 429 THEN "RateLimitError"
    ELSE IF reply.status = 400 THEN "ValidationError"
    ELSE "ProviderError"

\* C17: every failure of complete reaches the caller as one of the six typed
\* provider errors: 401 as AuthenticationError, 429 as RateLimitError, 400 as
\* ValidationError, any other error status as ProviderError, a timeout as
\* TimeoutError, any other transport failure as NetworkError; also when the
\* success body is malformed and when the client was never initialised.
C17_OnlyTypedErrors ==
    \A i \in DOMAIN provider.calls :
        LET call == provider.calls[i]
        IN call.raised.type # "" =>
              /\ call.raised.type \in TypedProviderErrors
              /\ call.initialised /\ (call.reply.kind # "response" \/ call.reply.status # 200)
                    => call.raised.type = ClaimedError(call.reply)

\* something was loaded
Loaded == files.loaded.location # <<>>

\* the trace the loaded document was exported from, as it was then
Source == files.exported[files.loaded.location]

\* the values JSON has a type of its own for
IsJsonValue(v) == v[1] \in {"str", "int", "float", "bool", "NoneType", "list"}

\* the loaded document has the trace_id of the trace and its spans in the
\* same number and order, each with the same name; a span that was open loads
\* with end_time and duration_ms null
SameSkeleton ==
    LET doc == files.loaded.document
    IN /\ doc.trace_id = PyStr(Source.trace_id)
       /\ Len(doc.spans) = Len(Source.spans)
       /\ \A k \in DOMAIN Source.spans :
             /\ doc.spans[k].name = PyStr(Source.spans[k].name)
             /\ ~Source.spans[k].ended =>
                   /\ doc.spans[k].end_time = PyNone
                   /\ doc.spans[k].duration_ms = PyNone

SpanNames(tr) == [k \in DOMAIN traces[tr].spans |-> spans[traces[tr].spans[k]].name]

\* the messages of the last turn of agent t that follow its user message
RECURSIVE SinceUser(_)
SinceUser(msgs) ==
    IF msgs = <<>> \/ msgs[Len(msgs)].role = "user" THEN <<>>
    ELSE Append(SinceUser(SubSeq(msgs, 1, Len(msgs) - 1)), msgs[Len(msgs)])

\* the spans a provider reply stands for: its llm_call, then one tool:<name>
\* per tool call it requests, in request order
SpansOfReply(m) ==
    LET calls == DictGet(m.metadata, "tool_calls", <<>>)
    IN <<"llm_call">> \o [k \in DOMAIN calls |-> <<"tool:", calls[k].name>>]

\* the spans the replies of a turn stand for, reply after reply
RECURSIVE SpansOfReplies(_)
SpansOfReplies(msgs) ==
    IF msgs = <<>> THEN <<>>
    ELSE LET m == msgs[Len(msgs)]
             before == SpansOfReplies(SubSeq(msgs, 1, Len(msgs) - 1))
         IN IF m.role = "assistant" THEN before \o SpansOfReply(m) ELSE before

\* the provider replies of the last turn of agent t
RepliesOf(t) == SelectSeq(SinceUser(Messages(t)), LAMBDA m : m.role = "assistant")

\* C19: the trace a send_message turn exports lists its spans in creation
\* order: the root span send_message, then for every loop iteration one
\* llm_call span followed by one tool:<name> span per requested tool call, in
\* request order (a provider call that raised leaves its llm_call span last);
\* a turn whose provider asks for one tool and then answers gives exactly
\* send_message, llm_call, tool:<name>, llm_call.
C19_SpansInCreationOrder ==
    \A t \in Tasks :
        pc[t] = "idle" /\ turn[t].n > 0 =>
            LET tr == conversation[t].trace_id
                replies == RepliesOf(t)
            IN /\ ExportsOf(tr) = 1
               /\ \A j, k \in DOMAIN traces[tr].spans :
                     j < k => traces[tr].spans[j] < traces[tr].spans[k]
               /\ SpanNames(tr) =
                     <<"send_message">> \o SpansOfReplies(replies)
                        \o (IF turn[t].provider_calls > Len(replies)
                            THEN <<"llm_call">> ELSE <<>>)
               /\ Len(replies) = 2
                  /\ Len(DictGet(replies[1].metadata, "tool_calls", <<>>)) = 1
                  /\ DictGet(replies[2].metadata, "tool_calls", <<>>) = <<>>
                  => SpanNames(tr) =
                        <<"send_message", "llm_call",
                          <<"tool:", replies[1].metadata["tool_calls"][1].name>>,
                          "llm_call">>

\* a turn in which the provider asked for the echo tool and then answered
\* has ended, and its trace lists send_message, llm_call, tool:echo, llm_call
C19_Witness ==
    /\ pc["A"] = "idle"
    /\ turn["A"].outcome = "returned"
    /\ ExportsOf(conversation["A"].trace_id) = 1
    /\ SpanNames(conversation["A"].trace_id) =
           <<"send_message", "llm_call", <<"tool:", "echo">>, "llm_call">>

C21_ImmutableOnceEnded ==
    [][\A sid \in DOMAIN spans :
          /\ spans[sid].ended => spans'[sid] = spans[sid]
          /\ spans'[sid].status # spans[sid].status => spans[sid].status = "unset"]_vars

\* the llm_call spans of trace tr that a provider error left
RaisedCalls(tr) ==
    {k \in DOMAIN traces[tr].spans :
        /\ spans[traces[tr].spans[k]].name = "llm_call"
        /\ scope[traces[tr].spans[k]].exit = "raised"}

\* C22: when provider.complete raises a provider error during a turn, the
\* call is not retried (no span follows its llm_call span) and the error is
\* not converted: once the turn is over, send_message has raised that same
\* error, and the llm_call span and the root span have ended with status
\* error.
C22_ProviderErrorSurfaces ==
    \A t \in Tasks :
        pc[t] = "idle" /\ turn[t].n > 0 =>
            LET tr == conversation[t].trace_id
                ids == traces[tr].spans
            IN \A k \in RaisedCalls(tr) :
                  /\ k = Len(ids)
                  /\ spans[ids[k]].ended /\ spans[ids[k]].status = "error"
                  /\ spans[ids[1]].ended /\ spans[ids[1]].status = "error"
                  /\ turn[t].outcome = "raised"
                  /\ turn[t].error.type = spans[ids[k]].attributes["error.type"]
                  /\ turn[t].error.type \in ProviderErrorTypes

\* the llm_call spans of trace tr, in the order listed
LlmCalls(tr) ==
    SelectSeq(traces[tr].spans, LAMBDA sid : spans[sid].name = "llm_call")

\* C23: at every provider call the list passed is the system message followed
\* by the whole conversation history as it stands: the user message of the
\* turn and, from the second iteration on, the assistant tool-call message and
\* the tool-result messages of every earlier iteration; the llm_call span has
\* message_count = history length + 1, and the iteration attribute of the
\* llm_call spans of a trace counts 0, 1, 2, ...
C23_ProviderSeesWholeHistory ==
    /\ \A t \in Tasks :
          pc[t] = "await_provider" =>
              LET sent == frame[t].messages
                  llm == spans[frame[t].llm_span]
              IN /\ sent = <<SystemMessage>> \o Messages(t)
                 /\ \E k \in DOMAIN sent :
                       /\ sent[k] = Message("user", UserText(turn[t].n), EmptyDict)
                       /\ Len(sent) - k = frame[t].iteration * (1 + Len(frame[t].tool_calls))
                       /\ \A j \in (k + 1)..Len(sent) : sent[j].role \in {"assistant", "tool"}
                 /\ llm.attributes["message_count"] = Len(Messages(t)) + 1
                 /\ llm.attributes["iteration"] = frame[t].iteration
    /\ \A tr \in DOMAIN traces :
          \A k \in DOMAIN LlmCalls(tr) :
              spans[LlmCalls(tr)[k]].attributes["iteration"] = k - 1

\* the third provider call of a turn is under way: the list passed holds the
\* system message, the user message and two rounds of a tool-call message
\* with its two tool results
C23_Witness ==
    /\ pc["A"] = "await_provider"
    /\ frame["A"].iteration = 2
    /\ Len(frame["A"].tool_calls) = 2
    /\ Len(frame["A"].messages) = 8
    /\ frame["A"].messages[1].role = "system"
    /\ frame["A"].messages[2].role = "user"
    /\ frame["A"].messages[3].role = "assistant"
    /\ frame["A"].messages[5].role = "tool"
    /\ spans[frame["A"].llm_span].attributes["message_count"] = 8

\* the tool spans whose scope task t has opened and not left
OpenToolSpans(t) ==
    {sid \in DOMAIN spans :
        /\ scope[sid].by = t
        /\ scope[sid].exit = "open"
        /\ "tool_name" \in DOMAIN spans[sid].attributes}

\* the tool-result messages that follow the newest provider reply of agent t
RECURSIVE ToolResults(_)
ToolResults(msgs) ==
    IF msgs = <<>> \/ msgs[Len(msgs)].role # "tool" THEN <<>>
    ELSE Append(ToolResults(SubSeq(msgs, 1, Len(msgs) - 1)), msgs[Len(msgs)])

\* C24: the tool calls of a batch run strictly one after the other: while call
\* i is worked on (its span opened, its handler awaited) the spans of the
\* calls 1..i-1 are closed and their tool-result messages are in the
\* conversation, in order; at most one tool span is open at any time, and
\* none while a provider call is under way.
C24_ToolCallsOneByOne ==
    \A t \in Tasks :
        /\ Cardinality(OpenToolSpans(t)) <= 1
        /\ pc[t] \in {"loop", "await_provider", "reply"} => OpenToolSpans(t) = {}
        /\ pc[t] \in {"tool_try", "await_tool", "tool_exit"} =>
              LET i == Len(frame[t].tool_calls) - Len(frame[t].pending) + 1
                  done == ToolResults(Messages(t))
              IN /\ OpenToolSpans(t) = {frame[t].tool_span}
                 /\ Len(done) = i - 1
                 /\ \A j \in 1..(i - 1) :
                       done[j].metadata["tool_call_id"] = frame[t].tool_calls[j].id
                 /\ \A sid \in DOMAIN spans :
                       /\ spans[sid].trace_id = frame[t].trace
                       /\ sid # frame[t].tool_span
                       /\ "tool_name" \in DOMAIN spans[sid].attributes
                       => spans[sid].ended

\* the handler of the second call of a batch is awaited: the span of the
\* first call is closed and its tool-result message is in the conversation
C24_Witness ==
    /\ pc["A"] = "await_tool"
    /\ Len(frame["A"].tool_calls) = 2
    /\ Len(frame["A"].pending) = 1
    /\ Len(ToolResults(Messages("A"))) = 1
    /\ OpenToolSpans("A") = {frame["A"].tool_span}

\* C26: on one tracer in one task, whenever the tracer has no current trace
\* the current span of the task is null, also after a scope that was open
\* when end_trace was called has been left.
C26_NoTraceNoCurrentSpan ==
    current_trace = None => current_span[CtxOf("A")] = None

\* C26, amended: whenever the tracer has no current trace and no span scope
\* is open, the current span of the task is null.
C26_NoTraceNoScopeNoCurrentSpan ==
    (current_trace = None /\ driver.scopes = <<>>) =>
        current_span[CtxOf("A")] = None

\* the last scope that was open when end_trace was called has been left, and
\* no trace was started since
C26_Witness ==
    /\ driver.last.op = "exit"
    /\ driver.last.was.detached
    /\ driver.scopes = <<>>
    /\ current_trace = None
    /\ current_span[CtxOf("A")] = None

\* C27: every span listed by a trace carries the id of that trace, and a span
\* with a parent has its parent listed earlier in the same trace, also when
\* start_trace was called while a span of the previous trace was current.
C27_SpansBelongToTheirTrace ==
    \A tr \in DOMAIN traces :
        \A k \in 1..Len(traces[tr].spans) :
            LET s == spans[traces[tr].spans[k]]
            IN /\ s.trace_id = tr
               /\ s.parent_span_id # None =>
                     \E j \in 1..(k - 1) : traces[tr].spans[j] = s.parent_span_id

\* the user message of turn n
UserMessage(n) == Message("user", UserText(n), EmptyDict)

\* the provider raised in the turn that trace tr records
ProviderRaisedIn(tr) == tr \in DOMAIN traces /\ RaisedCalls(tr) # {}

\* the messages list ends with the user message of turn n and what was
\* appended after it in that turn, and the store holds messages of before
\* that turn only
LeftOver(msgs, n, saved) ==
    \E k \in 1..Len(msgs) :
        /\ msgs[k] = UserMessage(n)
        /\ \A j \in (k + 1)..Len(msgs) : msgs[j].role \in {"assistant", "tool"}
        /\ Len(saved) < k
        /\ saved = SubSeq(msgs, 1, Len(saved))

IsToolSpan(s) == "tool_name" \in DOMAIN s.attributes

\* the call cannot succeed: malformed arguments, unregistered tool, or a
\* handler that raises
CallFails(call) ==
    \/ call.arguments = "malformed"
    \/ ~IsRegistered(call.name)
    \/ RegisteredTools[call.name] = "raises"

\* C29: in a turn the failure of a tool call is absorbed inside its span
\* scope: when the call is over its span carries success = false exactly if
\* the call failed, the scope is left normally and the span ends with status
\* ok; the only spans that end with status error are the llm_call span
\* whose provider call raised and the root span above it.
C29_FailedToolSpanEndsOk ==
    /\ \A t \in Tasks :
          pc[t] = "tool_exit" =>
              LET s == spans[frame[t].tool_span]
                  failed == CallFails(Head(frame[t].pending))
              IN /\ IsToolSpan(s) /\ ~s.ended
                 /\ "success" \in DOMAIN s.attributes
                 /\ s.attributes["success"] = ~failed
                 /\ failed <=> "error" \in DOMAIN s.attributes
    /\ \A sid \in DOMAIN spans :
          LET s == spans[sid]
          IN /\ IsToolSpan(s) /\ scope[sid].exit # "open" =>
                   /\ scope[sid].exit = "normal"
                   /\ s.ended /\ s.status = "ok"
                   /\ "success" \in DOMAIN s.attributes
             /\ s.status = "error" =>
                   /\ ~IsToolSpan(s)
                   /\ scope[sid].exit = "raised"
                   /\ \/ s.name = "llm_call"
                      \/ /\ s.name = "send_message"
                         /\ \E c \in DOMAIN spans :
                               /\ spans[c].parent_span_id = sid
                               /\ ~IsToolSpan(spans[c])
                               /\ spans[c].name = "llm_call"
                               /\ spans[c].status = "error"

\* C29, amended: in a turn the failure of a tool call is absorbed inside its span
\* scope: when the call is over its span carries success = false exactly if
\* the call failed, the scope is left normally and the span ends with status
\* ok; the only spans that end with status error are the llm_call span
\* whose provider call raised, the root span above it, and the root span
\* in whose scope store.save raised.
C29_ErrorOnlyWhenScopeRaised ==
    /\ \A t \in Tasks :
          pc[t] = "tool_exit" =>
              LET s == spans[frame[t].tool_span]
                  failed == CallFails(Head(frame[t].pending))
              IN /\ IsToolSpan(s) /\ ~s.ended
                 /\ "success" \in DOMAIN s.attributes
                 /\ s.attributes["success"] = ~failed
                 /\ failed <=> "error" \in DOMAIN s.attributes
    /\ \A sid \in DOMAIN spans :
          LET s == spans[sid]
          IN /\ IsToolSpan(s) /\ scope[sid].exit # "open" =>
                   /\ scope[sid].exit = "normal"
                   /\ s.ended /\ s.status = "ok"
                   /\ "success" \in DOMAIN s.attributes
             /\ s.status = "error" =>
                   /\ ~IsToolSpan(s)
                   /\ scope[sid].exit = "raised"
                   /\ \/ s.name = "llm_call"
                      \/ /\ s.name = "send_message"
                         /\ \E c \in DOMAIN spans :
                               /\ spans[c].parent_span_id = sid
                               /\ ~IsToolSpan(spans[c])
                               /\ spans[c].name = "llm_call"
                               /\ spans[c].status = "error"
                      \/ /\ s.name = "send_message"
                         /\ s.attributes["error.type"] = SaveFailure.type
                         /\ \A c \in DOMAIN spans :
                               spans[c].parent_span_id = sid => spans[c].status = "ok"

\* a turn in which a call of an unregistered tool failed and its span was
\* closed with status ok and success = false, and whose root span ended with
\* status error because store.save raised
C29_Witness ==
    \E r, b \in DOMAIN spans :
        /\ IsToolSpan(spans[b])
        /\ spans[b].parent_span_id = r
        /\ spans[b].ended /\ spans[b].status = "ok"
        /\ spans[b].attributes["success"] = FALSE
        /\ spans[b].attributes["tool_name"] = "ghost"
        /\ spans[r].ended /\ spans[r].status = "error"
        /\ spans[r].attributes["error.type"] = SaveFailure.type

\* the callbacks that start a span, and those that end one
StartCallbacks == {"on_llm_start", "on_tool_start"}

\* the run ids that were started and not ended since, going by the callbacks
\* received
RECURSIVE StartedNotEnded(_)
StartedNotEnded(log) ==
    IF log = <<>> THEN {}
    ELSE LET before == StartedNotEnded(SubSeq(log, 1, Len(log) - 1))
             c == log[Len(log)]
         IN IF c.op \in StartCallbacks THEN before \cup {c.run_id}
            ELSE before \ {c.run_id}

\* C25: after any sequence of callbacks the spans map of the handler holds
\* exactly the run ids that were started and not yet ended; a span in the
\* map was never ended, a span no longer in the map was ended exactly once;
\* and an end or error callback for a run id the map does not hold changes
\* neither the map nor any span.
C25_MapHoldsOpenRuns ==
    /\ DOMAIN callbacks.spans = StartedNotEnded(callbacks.log)
    /\ \A sid \in DOMAIN callbacks.started :
          callbacks.started[sid].ends =
              IF \E r \in DOMAIN callbacks.spans : callbacks.spans[r] = sid
              THEN 0 ELSE 1
    /\ callbacks.log # <<>> =>
          LET c == callbacks.log[Len(callbacks.log)]
          IN c.op \notin StartCallbacks /\ c.run_id \notin DOMAIN callbacks.last.spans =>
                /\ callbacks.spans = callbacks.last.spans
                /\ callbacks.started = callbacks.last.started

\* C30: send_message changes the chat memory all or nothing: a call whose
\* model call succeeded has appended the user message and then the reply, and
\* nothing else, and returned the text of the reply; a call whose model call
\* failed has returned a text that starts with "Error: ", has not raised, and
\* has left the memory as it was; a cancelled call leaves it as it was too;
\* reset_conversation leaves the memory empty.
C30_MemoryAllOrNothing ==
    LET last == investigator.last
    IN /\ last.op = "send_message" /\ last.outcome = "returned" /\ last.error = NoExc =>
             /\ investigator.memory =
                   last.before \o <<ChatMessage("human", last.user_message),
                                    ChatMessage("ai", last.value[1])>>
             /\ last.value[1] \in Replies
       /\ last.op = "send_message" /\ last.error \in ModelFailures =>
             /\ last.outcome = "returned"
             /\ last.value[1] = "Error: "
             /\ investigator.memory = last.before
       /\ last.op = "send_message" /\ last.outcome = "raised" =>
             /\ last.error = Cancelled
             /\ investigator.memory = last.before
       /\ last.op = "reset_conversation" => investigator.memory = <<>>

\* a call has failed and returned its error text with the two messages of an
\* earlier, successful call still the whole memory
C30_Witness ==
    /\ investigator.last.op = "send_message"
    /\ investigator.last.error \in ModelFailures
    /\ investigator.last.value[1] = "Error: "
    /\ Len(investigator.memory) = 2
    /\ investigator.memory[1].type = "human"
    /\ investigator.memory[2].type = "ai"

====
